---- MODULE Spec2Model ----
(***************************************************************************)
(* The AutoHotkey v2 lexer and folder of lexers/LexAHK2.cxx as a state     *)
(* machine.  A document is a sequence of one-character strings; positions  *)
(* and line numbers are 0-based as in the source.  One LexBody step is one *)
(* iteration of the scanning loop of LexerAHK2::Lex, one LexAdvance step   *)
(* is the loop's moveForward().                                            *)
(***************************************************************************)
EXTENDS Integers, Sequences, FiniteSets, TLC

VARIABLES doc, options, styles, endStyled, lineState, levels, parserStates, pc, sc, styler, parserState, loc, hist

vars == <<doc, options, styles, endStyled, lineState, levels, parserStates, pc, sc, styler, parserState, loc, hist>>

\* ------------------------------------------------------------------ bounds
\* Longest document drawn exhaustively from an alphabet.
MaxLen == 4

MaxLines == 3

\* ------------------------------------------------------------ characters
NUL == ""
LF == "\n"
CR == "\r"
TAB == "\t"
BACKTICK == "BACKTICK"
DQUOTE == "\""

UpperCase == <<"A","B","C","D","E","F","G","H","I","J","K","L","M","N","O","P","Q","R","S","T","U","V","W","X","Y","Z">>
LowerCase == <<"a","b","c","d","e","f","g","h","i","j","k","l","m","n","o","p","q","r","s","t","u","v","w","x","y","z">>
DigitChars == {"0","1","2","3","4","5","6","7","8","9"}

Range(s) == {s[i] : i \in DOMAIN s}

toLower(c) == IF \E i \in DOMAIN UpperCase : UpperCase[i] = c THEN LowerCase[CHOOSE i \in DOMAIN UpperCase : UpperCase[i] = c] ELSE c

isWhitespace(c) == c = " " \/ c = TAB

isWhitespaceOrCR(c) == isWhitespace(c) \/ c = CR

isNumeric(c, allowHex) == c \in DigitChars \/ (allowHex /\ c \in {"A","B","C","D","E","F","a","b","c","d","e","f"})

isHexNumeric(c) == isNumeric(c, TRUE)

\* The documents of the model hold no character above 0x7F.
isIdChar(c, allowNumeric) == c \in Range(LowerCase) \/ c \in Range(UpperCase) \/ (allowNumeric /\ isNumeric(c, FALSE)) \/ c = "_"

isExprOp(c) == c \in {"+","-","*","/",".","=","!","<",">","&","|","^","~","?",":",","}

isOpeningBrace(c) == c \in {"(","[","{"}

isClosingBrace(c) == c \in {")","]","}"}

isExprOpOrBrace(c) == isExprOp(c) \/ isOpeningBrace(c) \/ isClosingBrace(c)

isHotstringOptionChar(c) == c \in Range(LowerCase) \/ c \in Range(UpperCase) \/ isNumeric(c, FALSE) \/ c = "*" \/ c = "?"

isHotkeyModifier(c) == c \in {"#","!","^","+","<",">","*","~","$"}

\* ---------------------------------------------------------------- styles
SCE_AHK2_DEFAULT == "DEFAULT"
SCE_AHK2_COMMENT_LINE == "COMMENT_LINE"
SCE_AHK2_COMMENT_BLOCK == "COMMENT_BLOCK"
SCE_AHK2_STRING == "STRING"
SCE_AHK2_ESCAPE == "ESCAPE"
SCE_AHK2_OPERATOR == "OPERATOR"
SCE_AHK2_NUMBER == "NUMBER"
SCE_AHK2_ID_TOP_LEVEL == "ID_TOP_LEVEL"
SCE_AHK2_ID_OBJECT == "ID_OBJECT"
SCE_AHK2_DIRECTIVE == "DIRECTIVE"
SCE_AHK2_LABEL == "LABEL"
SCE_AHK2_FLOW == "FLOW"
SCE_AHK2_ID_RESERVED == "ID_RESERVED"
SCE_AHK2_ERROR == "ERROR"

\* A token value as held by lastToken / prevTokenForId / finalToken: a style
\* with the TokenFlag_* bits or-ed into it.
Tok(style) == [style |-> style, flags |-> {}]

TokFlag(t, f) == [t EXCEPT !.flags = @ \cup {f}]

\* stringState: the end character (StringState_EndCharMask) and the flag bits.
StrState(c, fl) == [endChar |-> c, flags |-> fl]

NoString == StrState(NUL, {})

\* ParserStateAHK2, default-constructed.
ZeroParserState == [finalToken |-> Tok(SCE_AHK2_DEFAULT), stringState |-> NoString, contState |-> {}]

InContSect(ps) == "Inside" \in ps.contState

InStringContSect(ps) == "String" \in ps.contState

\* Same-line comments allowed in every continuation section.
AllowLineCommentsAlways(ps) == TRUE

AllowLineComments(ps) == ~InContSect(ps) \/ "Comments" \in ps.contState

AllowStringEscape(ps) == "NoEscape" \notin ps.contState

\* ------------------------------------------------- the host's document
DocLen == Len(doc)

\* styler.SafeGetCharAt(pos, 0)
CharAt(p) == IF p >= 0 /\ p < DocLen THEN doc[p + 1] ELSE NUL

LastLine == Cardinality({i \in DOMAIN doc : doc[i] = LF})

\* styler.GetLine(pos): the number of line ends before pos.
GetLine(p) == Cardinality({i \in DOMAIN doc : i <= p /\ doc[i] = LF})

\* styler.LineStart(line); the document length for a line past the last.
LineStart(line) == IF line <= 0 THEN 0 ELSE IF line > LastLine THEN DocLen ELSE CHOOSE p \in 1..DocLen : doc[p] = LF /\ GetLine(p) = line

\* styler.LineEnd(line): the position of the line's end-of-line character.
LineEnd(line) == IF line >= LastLine THEN DocLen ELSE LineStart(line + 1) - 1

\* ------------------------------------------- LexAccessor / StyleContext
\* The operators below act on the bundle m of one Lex activation:
\*   m.sc      the StyleContext         m.styler  the LexAccessor
\*   m.ps      parserState              m.loc     the locals of Lex
\*   m.cache   parserStates             m.ls      the host's line states

\* LexAccessor::ColourTo: style [startSeg, pos]; an empty range only moves startSeg,
\* and a position before the segment start fails the assertion and styles nothing.
ColourTo(m, pos, attr) == IF pos = m.styler.startSeg - 1 THEN m ELSE IF pos < m.styler.startSeg THEN [m EXCEPT !.styler.asserted = TRUE] ELSE [m EXCEPT !.styler.styleBuf = @ \o [i \in 1..(pos - m.styler.startSeg + 1) |-> attr], !.styler.tokens = Append(@, [first |-> m.styler.startSeg, last |-> pos, style |-> attr]), !.styler.startSeg = pos + 1]

\* The position StyleContext colours up to from currentPos.
ColourEnd(m) == m.sc.currentPos - (IF m.sc.currentPos > DocLen THEN 2 ELSE 1)

\* StyleContext::SetState
SetState(m, st) == [ColourTo(m, ColourEnd(m), m.sc.state) EXCEPT !.sc.state = st]

\* StyleContext::ChangeState
ChangeState(m, st) == [m EXCEPT !.sc.state = st]

\* StyleContext::GetNextChar, the atLineEnd part.
AtLineEndAt(pos, line, lineStartNext) == IF line < LastLine THEN pos >= lineStartNext - 1 ELSE pos >= lineStartNext

\* StyleContext::Forward
Forward(m) == IF m.sc.currentPos < m.sc.endPos THEN LET line == IF m.sc.atLineEnd THEN m.sc.currentLine + 1 ELSE m.sc.currentLine lsn == IF m.sc.atLineEnd THEN LineStart(line + 1) ELSE m.sc.lineStartNext pos == m.sc.currentPos + 1 IN [m EXCEPT !.sc.atLineStart = m.sc.atLineEnd, !.sc.currentLine = line, !.sc.lineEnd = IF m.sc.atLineEnd THEN LineEnd(line) ELSE @, !.sc.lineStartNext = lsn, !.sc.chPrev = m.sc.ch, !.sc.currentPos = pos, !.sc.ch = m.sc.chNext, !.sc.chNext = CharAt(pos + 1), !.sc.atLineEnd = AtLineEndAt(pos, line, lsn)] ELSE [m EXCEPT !.sc.atLineStart = FALSE, !.sc.chPrev = " ", !.sc.ch = " ", !.sc.chNext = " ", !.sc.atLineEnd = TRUE]

\* StyleContext::Forward(nb)
Forward2(m) == Forward(Forward(m))

\* StyleContext::ForwardSetState
ForwardSetState(m, st) == SetState(Forward(m), st)

\* StyleContext::Match(ch0, ch1)
Match(m, c0, c1) == m.sc.ch = c0 /\ m.sc.chNext = c1

\* StyleContext::LengthCurrent
LengthCurrent(m) == m.sc.currentPos - m.styler.startSeg

\* StyleContext::GetCurrentLowered: the text of the current token, lowered.
GetCurrentLowered(m) == [i \in 1..LengthCurrent(m) |-> toLower(CharAt(m.styler.startSeg + i - 1))]

\* StyleContext's constructor for the range [startPos, endRange).
NewStyleContext(startPos, endRange, initStyle) == LET line == GetLine(startPos) lsn == LineStart(line + 1) IN [currentPos |-> startPos, endPos |-> IF endRange < DocLen THEN endRange ELSE DocLen + 1, currentLine |-> line, lineEnd |-> LineEnd(line), lineStartNext |-> lsn, atLineStart |-> LineStart(line) = startPos, atLineEnd |-> AtLineEndAt(startPos, line, lsn), state |-> initStyle, chPrev |-> CharAt(startPos - 1), ch |-> CharAt(startPos), chNext |-> CharAt(startPos + 1)]

\* LexAccessor after StartAt(startPos) and StartSegment(startPos).
NewStyler(startPos) == [startSeg |-> startPos, startPosStyling |-> startPos, styleBuf |-> <<>>, tokens |-> <<>>, asserted |-> FALSE]

\* ------------------------------------------------ C strings as sequences
\* The character at C index i of the NUL-terminated string s.
At(s, i) == IF i >= 0 /\ i < Len(s) THEN s[i + 1] ELSE NUL

\* The string that starts at C index i of s.
From(s, i) == SubSeq(s, i + 1, Len(s))

\* The string s cut by a NUL written at C index i.
Upto(s, i) == SubSeq(s, 1, i)

\* The first index j >= i whose character is not in the set P (the NUL is in no P).
SkipWhile(s, i, P) == CHOOSE j \in i..Len(s) : At(s, j) \notin P /\ \A k \in i..(j - 1) : At(s, k) \in P

\* strstr(s + from, pat): the index of the first occurrence, or -1.
StrStr(s, from, pat) ==
    LET hits == {j \in from..(Len(s) - Len(pat)) : \A k \in 1..Len(pat) : s[j + k] = pat[k]}
    IN IF hits = {} THEN -1 ELSE CHOOSE j \in hits : \A k \in hits : j <= k

\* Trailing characters of the set P removed, but never before index low.
TrimBack(s, i, low, P) == CHOOSE j \in low..i : (j = low \/ At(s, j - 1) \notin P) /\ \A k \in (j + 1)..i : At(s, k - 1) \in P

\* ------------------------------------------------------------- word lists
\* The five word lists the host configures with WordListSet (lower case).
directivesExpr == {<<"h","o","t","i","f">>}
directivesStr == {<<"r","e","q","u","i","r","e","s">>, <<"r">>}
controlFlow == {<<"l","o","o","p">>, <<"g","o","t","o">>, <<"i","f">>, <<"g">>, <<"l">>}
reservedWords == {<<"a","n","d">>, <<"n">>}
namedKeys == {<<"e","s","c">>, <<"f","2">>}

\* WordList::InList
InList(list, word) == word \in list

\* ------------------------------------------- line lookahead classifiers
BufSize == 512

isSpecialLoopType(str) == str \in {<<"f","i","l","e","s">>, <<"p","a","r","s","e">>, <<"r","e","a","d">>, <<"r","e","g">>}

\* A comments option that is any word that starts with c.
isContSectCommentFlagLoose(str) == Len(str) >= 1 /\ str[1] = "c"

isContSectCommentFlag(str) ==
    LET flag == <<"c","o","m","m","e","n","t","s">>
    IN Len(str) >= 1 /\ Len(str) <= Len(flag) /\ \A i \in 1..Len(str) : str[i] = flag[i]

isEtterCompatible(str) ==
    LET head == At(str, 0) \in {"g", "s"} /\ At(str, 1) = "e" /\ At(str, 2) = "t"
        p == SkipWhile(str, 3, {x \in Range(str) : isWhitespace(x)})
    IN IF head /\ At(str, 3) # NUL
       THEN ~isIdChar(At(str, 3), TRUE) /\ (At(str, p) = "{" \/ (At(str, p) = "=" /\ At(str, p + 1) = ">"))
       ELSE head

isLabelCompatible(str, len) == len >= 2 /\ At(str, len - 1) = ":" /\ \A i \in 0..(len - 2) : isIdChar(At(str, i), i > 0)

\* A hotstring test that sees the x option in the first option only.
isHotstringCompatibleFirstX(str, isX0) ==
    IF At(str, 0) # ":" THEN [valid |-> FALSE, isX |-> isX0]
    ELSE LET a == SkipWhile(str, 1, {x \in Range(str) : isWhitespace(x)})
             b == SkipWhile(str, a, {x \in Range(str) : isHotstringOptionChar(x)})
             c == SkipWhile(str, b, {x \in Range(str) : isWhitespace(x)})
         IN [valid |-> At(str, c) = ":" /\ At(str, c + 1) # ":",
             isX |-> a < b /\ At(str, a) \in {"x", "X"}]

\* Returns valid and the isX out-parameter (left as passed when str[0] # ':').
isHotstringCompatible(str, isX0) ==
    IF At(str, 0) # ":" THEN [valid |-> FALSE, isX |-> isX0]
    ELSE LET a == SkipWhile(str, 1, {x \in Range(str) : isWhitespace(x)})
             b == SkipWhile(str, a, {x \in Range(str) : isHotstringOptionChar(x)})
             c == SkipWhile(str, b, {x \in Range(str) : isWhitespace(x)})
         IN [valid |-> At(str, c) = ":" /\ At(str, c + 1) # ":",
             isX |-> \E k \in a..(b - 1) : At(str, k) \in {"x", "X"}]

RECURSIVE skipHotkeyModifiers(_)
skipHotkeyModifiers(str) == IF isHotkeyModifier(At(str, 0)) /\ At(str, 1) # NUL /\ At(str, 1) # " " THEN skipHotkeyModifiers(From(str, 1)) ELSE str

\* The vkNN / scNNN prefix steps of isValidKey: the index reached and whether one matched.
SkipVKorSC(str, i, a, b) == IF At(str, i) = a /\ At(str, i + 1) = b /\ isHexNumeric(At(str, i + 2)) THEN SkipWhile(str, i + 3, {x \in Range(str) : isHexNumeric(x)}) ELSE i

isValidKey(str, useNamedKeys) ==
    IF Len(str) = 0 THEN FALSE
    ELSE IF Len(str) = 1 THEN TRUE
    ELSE IF ~useNamedKeys THEN \A i \in 1..Len(str) : isIdChar(str[i], TRUE)
    ELSE LET i1 == SkipVKorSC(str, 0, "v", "k")
             i2 == SkipVKorSC(str, i1, "s", "c")
         IN IF i2 # 0 THEN At(str, i2) = NUL ELSE InList(namedKeys, str)

\* The remap test at the end of isHotkeyCompatible, on the target string.
RemapTarget(target) ==
    LET t == IF At(target, 0) = BACKTICK /\ At(target, 1) = "{" THEN From(target, 1) ELSE target
    IN IF t # <<"p","a","u","s","e">> THEN isValidKey(skipHotkeyModifiers(t), TRUE) ELSE FALSE

\* Lines 400-407: a combination "key1 & key2"; key1 may have the ~ modifier.
isValidCombo(key1, str2) ==
    IF At(key1, 0) = "~"
    THEN Len(key1) > SkipWhile(key1, 1, {x \in Range(key1) : isWhitespace(x)})
         /\ isValidKey(From(key1, SkipWhile(key1, 1, {x \in Range(key1) : isWhitespace(x)})), FALSE) /\ isValidKey(str2, FALSE)
    ELSE isValidKey(key1, FALSE) /\ isValidKey(str2, FALSE)

\* Lines 387-414: the key, cut at amp when it has " & " (amp < 0 when it has not).
isValidHotkey(key, amp) ==
    IF amp >= 0
    THEN isValidCombo(Upto(key, TrimBack(key, amp, 0, {x \in Range(key) : isWhitespace(x)})), From(key, SkipWhile(key, amp + 3, {x \in Range(key) : isWhitespace(x)})))
    ELSE isValidKey(skipHotkeyModifiers(key), FALSE)

\* Lines 416-431: the result once the key is known to be valid or not.
HotkeyResult(valid, target) ==
    [valid |-> valid,
     isRemap |-> IF valid /\ At(target, 0) # NUL /\ At(target, 0) # "{" THEN RemapTarget(target) ELSE FALSE]

\* Lines 378-381: the key ends at sep, or before an "up" that ends at sep.
HotkeyKeyEnd(str, sep) ==
    IF sep >= 3 /\ isWhitespace(At(str, sep - 2)) /\ At(str, sep - 1) = "u" /\ At(str, sep) = "p"
    THEN TrimBack(str, sep - 3, 0, {x \in Range(str) : isWhitespace(x)})
    ELSE sep

\* Lines 383-431, on the key and the target.
HotkeyOf(key, target) == HotkeyResult(isValidHotkey(key, StrStr(key, 0, <<" ", "&", " ">>)), target)

\* Lines 366-431, with sep the index of the "::" found after the first character.
HotkeyAt(str, sep) ==
    IF sep < 0 THEN [valid |-> FALSE, isRemap |-> FALSE]
    ELSE HotkeyOf(Upto(str, HotkeyKeyEnd(str, TrimBack(str, sep, 0, {x \in Range(str) : isWhitespace(x)}))),
                  From(str, SkipWhile(str, sep + 2, {x \in Range(str) : isWhitespace(x)})))

\* Returns valid and the isRemap out-parameter.
isHotkeyCompatible(str) == HotkeyAt(str, StrStr(str, 1, <<":", ":">>))

\* Where the same-line comment starts in buf, or Len(buf) when there is none.
CommentCut(buf) ==
    LET hits == {i \in 0..(Len(buf) - 1) : At(buf, i) = ";" /\ (i = 0 \/ isWhitespace(At(buf, i - 1)))}
    IN IF hits = {} THEN Len(buf) ELSE CHOOSE i \in hits : \A k \in hits : i <= k

\* extractLineRTrim: the rest of the line, lowered, comment removed, right-trimmed.
extractLineRTrim(m) ==
    LET avail == m.sc.lineEnd - m.sc.currentPos
        lineLen == IF avail > BufSize - 1 THEN BufSize - 1 ELSE avail
        raw == [i \in 1..lineLen |-> toLower(CharAt(m.sc.currentPos + i - 1))]
        cut == Upto(raw, CommentCut(raw))
    IN Upto(cut, TrimBack(cut, Len(cut), 0, {x \in Range(cut) : isWhitespaceOrCR(x)}))

\* The whitespace-separated options after the ( of a continuation opener.
ContSectOptions(buf) ==
    {SubSeq(buf, ij[1], ij[2]) : ij \in {ab \in (2..Len(buf)) \X (2..Len(buf)) :
        /\ ab[1] <= ab[2]
        /\ \A k \in ab[1]..ab[2] : ~isWhitespace(buf[k])
        /\ (ab[1] = 2 \/ isWhitespace(buf[ab[1] - 1]))
        /\ (ab[2] = Len(buf) \/ isWhitespace(buf[ab[2] + 1]))}}

\* An opener that never makes its section string-valued.
OpenerContStateNoString(buf, ps) ==
    {"Inside"}
    \cup (IF <<BACKTICK>> \in ContSectOptions(buf) THEN {"NoEscape"} ELSE {})
    \cup (IF \E o \in ContSectOptions(buf) : isContSectCommentFlag(o) THEN {"Comments"} ELSE {})

\* The contState a continuation opener line sets (lines 691-720).
OpenerContState(buf, ps) ==
    {"Inside"}
    \cup (IF ps.stringState # NoString THEN {"String"} ELSE {})
    \cup (IF <<BACKTICK>> \in ContSectOptions(buf) THEN {"NoEscape"} ELSE {})
    \cup (IF \E o \in ContSectOptions(buf) : isContSectCommentFlag(o) THEN {"Comments"} ELSE {})

\* The continuation opener test of line 686.
isContSectOpener(buf) == At(buf, 0) = "(" /\ At(buf, 1) # ":" /\ \A i \in 1..(Len(buf) - 1) : At(buf, i) \notin {"(", ")"}

\* ------------------------------------------------------ LexerAHK2::Lex
\* The locals of Lex as declared at lines 591-606.
NewLocals == [atLineStart |-> FALSE, canStartBlockComment |-> FALSE, canEndBlockComment |-> FALSE,
              lastToken |-> Tok(SCE_AHK2_DEFAULT), stringState |-> NoString, numIsHex |-> FALSE,
              numParseState |-> 0, prevTokenForId |-> Tok(SCE_AHK2_DEFAULT), isRemap |-> FALSE,
              labelCompatible |-> FALSE, etterCompatible |-> FALSE, swallowForward |-> FALSE,
              cont |-> FALSE]

\* Leaving the loop body early; swallow tells whether swallowForward was set first.
Continue(m, swallow) == [m EXCEPT !.loc.cont = TRUE, !.loc.swallowForward = IF swallow THEN TRUE ELSE @]

\* Lines 619-642: the reset and the resume style at the first character of a line.
LineStartPhase(m) ==
    IF ~m.sc.atLineStart THEN m
    ELSE LET r == [m EXCEPT !.loc.atLineStart = TRUE, !.loc.canStartBlockComment = TRUE,
                            !.loc.lastToken = Tok(SCE_AHK2_DEFAULT), !.loc.stringState = NoString,
                            !.loc.isRemap = FALSE, !.loc.labelCompatible = FALSE, !.loc.etterCompatible = FALSE]
         IN IF "String" \in r.ps.contState THEN SetState(r, SCE_AHK2_STRING)
            ELSE IF "Inside" \in r.ps.contState /\ r.ps.stringState # NoString
                 THEN [SetState(r, SCE_AHK2_STRING) EXCEPT !.loc.lastToken = Tok(SCE_AHK2_STRING), !.loc.stringState = r.ps.stringState]
            ELSE IF r.sc.state = SCE_AHK2_COMMENT_BLOCK
                 THEN IF r.loc.canEndBlockComment
                      THEN SetState([r EXCEPT !.loc.canEndBlockComment = FALSE], SCE_AHK2_DEFAULT)
                      ELSE r
            ELSE SetState(r, SCE_AHK2_DEFAULT)

\* A closer that clears the Inside flag alone.
ContSectEndKeepsFlags(m) ==
    LET isString == InStringContSect(m.ps)
        a == ForwardSetState(SetState(m, SCE_AHK2_OPERATOR), IF isString THEN SCE_AHK2_STRING ELSE SCE_AHK2_DEFAULT)
        b == [a EXCEPT !.ps.contState = @ \ {"Inside"}]
    IN Continue(IF isString THEN [b EXCEPT !.loc.lastToken = Tok(SCE_AHK2_STRING), !.loc.stringState = m.ps.stringState] ELSE b, TRUE)

\* A closer that reads the String flag after it has cleared contState.
ContSectEndFlagLost(m) ==
    LET a == SetState(m, SCE_AHK2_OPERATOR)
        b == [a EXCEPT !.ps.contState = {}]
        isString == InStringContSect(b.ps)
        c == ForwardSetState(b, IF isString THEN SCE_AHK2_STRING ELSE SCE_AHK2_DEFAULT)
    IN Continue(IF isString THEN [c EXCEPT !.loc.lastToken = Tok(SCE_AHK2_STRING), !.loc.stringState = m.ps.stringState] ELSE c, TRUE)

\* Lines 651-661: a ')' that closes the open continuation section.
ContSectEnd(m) ==
    LET isString == InStringContSect(m.ps)
        a == ForwardSetState(SetState(m, SCE_AHK2_OPERATOR), IF isString THEN SCE_AHK2_STRING ELSE SCE_AHK2_DEFAULT)
        b == [a EXCEPT !.ps.contState = {}]
    IN Continue(IF isString THEN [b EXCEPT !.loc.lastToken = Tok(SCE_AHK2_STRING), !.loc.stringState = m.ps.stringState] ELSE b, TRUE)

\* Lines 667-673: a block comment closed by the first text of a line.
CommentBlockEndAtLineStart(m) ==
    Continue([SetState(Forward2(m), SCE_AHK2_DEFAULT) EXCEPT !.loc.atLineStart = TRUE], TRUE)

\* Lines 686-723: the line opens a continuation section.
ContSectStart(m, buf) ==
    LET a == ForwardSetState(SetState(m, SCE_AHK2_OPERATOR), SCE_AHK2_STRING)
    IN Continue([a EXCEPT !.loc.stringState = StrState(NUL, {"NoEndChar"}), !.ps.contState = OpenerContState(buf, m.ps)], TRUE)

\* Lines 731-747: the hotstring's first part, after its first ':' is passed.
HotstringFirstPart(a, isX) ==
    IF a.sc.ch = ":"
    THEN Continue([SetState(Forward(a), SCE_AHK2_STRING) EXCEPT
                      !.loc.stringState = StrState(":", {"DoubleColon"} \cup (IF isX THEN {"HotstringX"} ELSE {})),
                      !.loc.lastToken = Tok(SCE_AHK2_STRING)], TRUE)
    ELSE Continue([SetState(a, SCE_AHK2_STRING) EXCEPT
                      !.loc.stringState = StrState(":", IF isX THEN {"HotstringX"} ELSE {}),
                      !.loc.lastToken = Tok(SCE_AHK2_STRING)], TRUE)

\* Lines 728-748: the line is a hotstring definition.
HotstringStart(m, isX) == HotstringFirstPart(Forward(SetState(m, SCE_AHK2_OPERATOR)), isX)

\* Lines 758-774: a line of no special type; what its first identifier may be.
LookaheadPlain(m, buf, isRemap, etter) ==
    [m EXCEPT !.loc.isRemap = isRemap, !.loc.etterCompatible = etter,
              !.loc.labelCompatible = IF etter THEN @ ELSE isLabelCompatible(buf, Len(buf))]

\* Lines 751-774: the hotkey test, hk being what isHotkeyCompatible returned.
LookaheadHotkey(m, buf, hk) ==
    IF hk.valid THEN SetState([m EXCEPT !.loc.isRemap = hk.isRemap], SCE_AHK2_LABEL)
    ELSE LookaheadPlain(m, buf, hk.isRemap, isEtterCompatible(buf))

\* Lines 728-774: the hotstring test, hs being what isHotstringCompatible returned.
LookaheadHotstring(m, buf, hs) ==
    IF hs.valid THEN HotstringStart(m, hs.isX)
    ELSE LookaheadHotkey(m, buf, isHotkeyCompatible(buf))

\* Lines 680-775, on the extracted line buf.
LookaheadLine(m, buf) ==
    IF Len(buf) = 0 THEN m
    ELSE IF isContSectOpener(buf) THEN ContSectStart(m, buf)
    ELSE LookaheadHotstring(m, buf, isHotstringCompatible(buf, FALSE))

\* Lines 680-775: the lookahead over the rest of a non-empty line.
LineLookahead(m) == LookaheadLine(m, extractLineRTrim(m))

\* A first-character phase that lets a '(' line inside a section open a section.
FirstCharPhaseNested(m) ==
    IF ~(m.loc.atLineStart /\ ~isWhitespace(m.sc.ch)) THEN m
    ELSE LET allowBlockComment == m.loc.canStartBlockComment
             r == [m EXCEPT !.loc.atLineStart = FALSE, !.loc.canStartBlockComment = FALSE]
         IN IF InContSect(r.ps) /\ r.sc.ch # "("
            THEN IF r.sc.ch = ")" THEN ContSectEnd(r)
                 ELSE IF r.sc.ch = ";" /\ AllowLineComments(r.ps) THEN SetState(r, SCE_AHK2_COMMENT_LINE)
                 ELSE r
            ELSE IF r.sc.state = SCE_AHK2_COMMENT_BLOCK
                 THEN IF Match(r, "*", "/") THEN CommentBlockEndAtLineStart(r) ELSE r
            ELSE IF r.sc.ch = ";" THEN SetState(r, SCE_AHK2_COMMENT_LINE)
            ELSE IF Match(r, "/", "*")
                 THEN SetState(r, IF allowBlockComment THEN SCE_AHK2_COMMENT_BLOCK ELSE SCE_AHK2_ERROR)
            ELSE LineLookahead(r)

\* A first-character phase that runs the lookahead inside a section too.
FirstCharPhaseLookahead(m) ==
    IF ~(m.loc.atLineStart /\ ~isWhitespace(m.sc.ch)) THEN m
    ELSE LET r == [m EXCEPT !.loc.atLineStart = FALSE, !.loc.canStartBlockComment = FALSE]
         IN IF InContSect(r.ps) /\ r.sc.ch = ")" THEN ContSectEnd(r)
            ELSE LineLookahead(r)

\* Lines 644-776: the first non-whitespace character of a line.
FirstCharPhase(m) ==
    IF ~(m.loc.atLineStart /\ ~isWhitespace(m.sc.ch)) THEN m
    ELSE LET allowBlockComment == m.loc.canStartBlockComment
             r == [m EXCEPT !.loc.atLineStart = FALSE, !.loc.canStartBlockComment = FALSE]
         IN IF InContSect(r.ps)
            THEN IF r.sc.ch = ")" THEN ContSectEnd(r)
                 ELSE IF r.sc.ch = ";" /\ AllowLineComments(r.ps) THEN SetState(r, SCE_AHK2_COMMENT_LINE)
                 ELSE r
            ELSE IF r.sc.state = SCE_AHK2_COMMENT_BLOCK
                 THEN IF Match(r, "*", "/") THEN CommentBlockEndAtLineStart(r) ELSE r
            ELSE IF r.sc.ch = ";" THEN SetState(r, SCE_AHK2_COMMENT_LINE)
            ELSE IF Match(r, "/", "*")
                 THEN SetState(r, IF allowBlockComment THEN SCE_AHK2_COMMENT_BLOCK ELSE SCE_AHK2_ERROR)
            ELSE LineLookahead(r)

\* A same-line comment test that finds no comment inside a string.
isSameLineCommentNotInString(m) ==
    m.sc.state \notin {SCE_AHK2_COMMENT_BLOCK, SCE_AHK2_STRING} /\ m.sc.ch = ";" /\ isWhitespace(m.sc.chPrev)

\* isSameLineComment
isSameLineComment(m) == m.sc.state # SCE_AHK2_COMMENT_BLOCK /\ m.sc.ch = ";" /\ isWhitespace(m.sc.chPrev)

\* isValidPointDecimal
isValidPointDecimal(m) == m.sc.ch = "." /\ (isWhitespace(m.sc.chPrev) \/ isExprOp(m.sc.chPrev) \/ isOpeningBrace(m.sc.chPrev)) /\ isNumeric(m.sc.chNext, FALSE)

\* Lines 794-814: a hotkey label ends at "::".
CaseLabel(m) ==
    IF Match(m, ":", ":")
    THEN LET a == Forward2(SetState(m, SCE_AHK2_OPERATOR))
         IN IF m.loc.isRemap
            THEN [SetState(a, SCE_AHK2_STRING) EXCEPT !.loc.stringState = StrState(NUL, {"NoEndChar"})]
            ELSE SetState(a, SCE_AHK2_DEFAULT)
    ELSE m

\* Lines 816-825: a block comment may end at the end of this line.
CaseCommentBlock(m) ==
    IF Match(m, "*", "/") THEN [Forward(m) EXCEPT !.loc.canEndBlockComment = TRUE]
    ELSE IF ~m.sc.atLineEnd /\ ~isWhitespaceOrCR(m.sc.ch) THEN [m EXCEPT !.loc.canEndBlockComment = FALSE]
    ELSE m

\* strchr over the escapable characters; the terminating NUL matches too.
isEscapable(c) == c \in {BACKTICK, ";", ":", "{", "n", "r", "b", "t", "s", "v", "a", "f", DQUOTE, "'", NUL}

\* Lines 845-857: after the colons of a hotstring are passed as an operator.
HotstringNextPart(b, doubleColon, hotstringX) ==
    IF doubleColon
    THEN IF hotstringX # {}
         THEN [SetState(b, SCE_AHK2_DEFAULT) EXCEPT !.loc.stringState = NoString]
         ELSE [SetState(b, SCE_AHK2_STRING) EXCEPT !.loc.stringState = StrState(NUL, {"NoEndChar"})]
    ELSE [SetState(b, SCE_AHK2_STRING) EXCEPT !.loc.stringState = StrState(":", {"DoubleColon"} \cup hotstringX)]

\* Lines 840-843: the colons are an operator, and the loop is not to advance.
HotstringColons(a, doubleColon) == [(IF doubleColon THEN Forward2(a) ELSE Forward(a)) EXCEPT !.loc.swallowForward = TRUE]

\* A hotstring colon that does not look for the second ':' of the closing "::".
HotstringColonSingle(m) ==
    HotstringNextPart(HotstringColons(SetState(m, SCE_AHK2_OPERATOR), "DoubleColon" \in m.loc.stringState.flags),
                      "DoubleColon" \in m.loc.stringState.flags, m.loc.stringState.flags \cap {"HotstringX"})

\* Lines 833-858: a ':' that ends a part of a hotstring.
HotstringColon(m) ==
    IF "DoubleColon" \in m.loc.stringState.flags /\ m.sc.chNext # ":" THEN m
    ELSE HotstringNextPart(HotstringColons(SetState(m, SCE_AHK2_OPERATOR), "DoubleColon" \in m.loc.stringState.flags),
                           "DoubleColon" \in m.loc.stringState.flags, m.loc.stringState.flags \cap {"HotstringX"})

\* A string case whose escape token starts at the backtick and does not take
\* the character after it.
CaseStringShortEscape(m) ==
    LET stringEndChar == m.loc.stringState.endChar
    IN IF stringEndChar # NUL /\ m.sc.ch = stringEndChar
       THEN IF stringEndChar # ":"
            THEN [ForwardSetState(m, SCE_AHK2_DEFAULT) EXCEPT !.loc.stringState = NoString]
            ELSE HotstringColon(m)
       ELSE IF m.sc.ch = BACKTICK /\ ~m.loc.isRemap /\ AllowStringEscape(m.ps)
            THEN IF isEscapable(m.sc.chNext) THEN SetState(m, SCE_AHK2_ESCAPE)
                 ELSE SetState(m, SCE_AHK2_ERROR)
       ELSE m

\* Lines 827-868
CaseString(m) ==
    LET stringEndChar == m.loc.stringState.endChar
    IN IF stringEndChar # NUL /\ m.sc.ch = stringEndChar
       THEN IF stringEndChar # ":"
            THEN [ForwardSetState(m, SCE_AHK2_DEFAULT) EXCEPT !.loc.stringState = NoString]
            ELSE HotstringColon(m)
       ELSE IF m.sc.ch = BACKTICK /\ ~m.loc.isRemap /\ AllowStringEscape(m.ps)
            THEN IF isEscapable(m.sc.chNext) THEN Forward(SetState(m, SCE_AHK2_ESCAPE))
                 ELSE SetState(m, SCE_AHK2_ERROR)
       ELSE m

\* An escape token that is never closed: the position is kept and so is the state.
CaseEscapeStuck(m) == [m EXCEPT !.loc.swallowForward = TRUE]

\* Lines 870-873
CaseEscape(m) == [SetState(m, SCE_AHK2_STRING) EXCEPT !.loc.swallowForward = TRUE]

\* Lines 875-880
CaseOperator(m) == IF ~isExprOpOrBrace(m.sc.ch) \/ m.sc.ch = "." THEN SetState(m, SCE_AHK2_DEFAULT) ELSE m

\* A number case that takes a hex prefix with no digit for a number.
CaseNumberAnyHex(m) ==
    LET ch == m.sc.ch
        nps == m.loc.numParseState
        isE == ch = "e" \/ ch = "E"
        first == nps \notin {1, 2, 3}
        numExponent == (first /\ ~m.loc.numIsHex /\ ch # "." /\ isE) \/ (nps = 1 /\ isE)
        numEnd == \/ first /\ m.loc.numIsHex /\ LengthCurrent(m) >= 2 /\ ~isNumeric(ch, TRUE)
                  \/ first /\ ~m.loc.numIsHex /\ ch # "." /\ ~isE /\ ~isNumeric(ch, FALSE)
                  \/ nps = 1 /\ ~isE /\ ~isNumeric(ch, FALSE)
                  \/ nps \in {2, 3} /\ ~isNumeric(ch, FALSE)
        nps1 == IF first /\ ~m.loc.numIsHex /\ ch = "." THEN 1
                ELSE IF nps \in {2, 3} /\ isNumeric(ch, FALSE) THEN 3
                ELSE nps
        invalid == IF m.loc.numIsHex THEN FALSE ELSE isIdChar(ch, FALSE) \/ nps1 = 2
        a == [m EXCEPT !.loc.numParseState = nps1]
    IN IF numExponent
       THEN [(IF m.sc.chNext = "+" \/ m.sc.chNext = "-" THEN Forward(a) ELSE a) EXCEPT !.loc.numParseState = 2]
       ELSE IF numEnd THEN SetState(a, IF invalid THEN SCE_AHK2_ERROR ELSE SCE_AHK2_DEFAULT)
       ELSE a

\* Lines 882-931
CaseNumber(m) ==
    LET ch == m.sc.ch
        nps == m.loc.numParseState
        isE == ch = "e" \/ ch = "E"
        first == nps \notin {1, 2, 3}
        numExponent == (first /\ ~m.loc.numIsHex /\ ch # "." /\ isE) \/ (nps = 1 /\ isE)
        numEnd == \/ first /\ m.loc.numIsHex /\ LengthCurrent(m) >= 2 /\ ~isNumeric(ch, TRUE)
                  \/ first /\ ~m.loc.numIsHex /\ ch # "." /\ ~isE /\ ~isNumeric(ch, FALSE)
                  \/ nps = 1 /\ ~isE /\ ~isNumeric(ch, FALSE)
                  \/ nps \in {2, 3} /\ ~isNumeric(ch, FALSE)
        nps1 == IF first /\ ~m.loc.numIsHex /\ ch = "." THEN 1
                ELSE IF nps \in {2, 3} /\ isNumeric(ch, FALSE) THEN 3
                ELSE nps
        invalid == IF m.loc.numIsHex THEN LengthCurrent(m) < 3 ELSE isIdChar(ch, FALSE) \/ nps1 = 2
        a == [m EXCEPT !.loc.numParseState = nps1]
    IN IF numExponent
       THEN [(IF m.sc.chNext = "+" \/ m.sc.chNext = "-" THEN Forward(a) ELSE a) EXCEPT !.loc.numParseState = 2]
       ELSE IF numEnd THEN SetState(a, IF invalid THEN SCE_AHK2_ERROR ELSE SCE_AHK2_DEFAULT)
       ELSE a

\* SubStyles: the host has allocated no substyles, so no identifier has one.
SubStyleFor(style, word) == -1

\* Lines 942-978: bare words that the line or the token before them reclassifies.
IdSpecial(m, buf) ==
    LET prev == m.loc.prevTokenForId
        To(style) == [ChangeState(m, style) EXCEPT !.loc.lastToken = Tok(style)]
    IN IF m.sc.state # SCE_AHK2_ID_TOP_LEVEL THEN m
       ELSE IF prev = Tok(SCE_AHK2_DEFAULT)
            THEN IF m.loc.etterCompatible THEN To(SCE_AHK2_ID_RESERVED)
                 ELSE IF m.sc.ch = ":"
                      THEN IF buf = <<"d","e","f","a","u","l","t">> THEN To(SCE_AHK2_FLOW)
                           ELSE IF m.loc.labelCompatible THEN To(SCE_AHK2_LABEL)
                           ELSE m
                 ELSE IF m.sc.ch # "." /\ m.sc.ch # "(" /\ buf = <<"c","l","a","s","s">>
                      THEN [To(SCE_AHK2_ID_RESERVED) EXCEPT !.loc.lastToken = TokFlag(@, "IsClass")]
                 ELSE m
       ELSE IF "IsLoop" \in prev.flags THEN (IF isSpecialLoopType(buf) THEN To(SCE_AHK2_FLOW) ELSE m)
       ELSE IF "IsClass" \in prev.flags THEN [m EXCEPT !.loc.lastToken = TokFlag(@, "IsClassName")]
       ELSE IF "IsClassName" \in prev.flags
            THEN (IF buf = <<"e","x","t","e","n","d","s">> THEN To(SCE_AHK2_ID_RESERVED) ELSE m)
       ELSE IF "TakesLabel" \in prev.flags THEN To(SCE_AHK2_LABEL)
       ELSE m

\* The word lists without the flags that goto, break, continue and loop
\* leave for the next word.
IdKeywordNoFlags(m, buf) ==
    LET To(style) == [ChangeState(m, style) EXCEPT !.loc.lastToken = Tok(style)]
    IN IF m.sc.state # SCE_AHK2_ID_TOP_LEVEL THEN m
       ELSE IF InList(controlFlow, buf) THEN To(SCE_AHK2_FLOW)
       ELSE IF InList(reservedWords, buf) THEN To(SCE_AHK2_ID_RESERVED)
       ELSE m

\* Lines 981-997: the control-flow and reserved word lists.
IdKeyword(m, buf) ==
    LET To(style) == [ChangeState(m, style) EXCEPT !.loc.lastToken = Tok(style)]
    IN IF m.sc.state # SCE_AHK2_ID_TOP_LEVEL THEN m
       ELSE IF InList(controlFlow, buf)
            THEN IF buf = <<"l","o","o","p">> THEN [To(SCE_AHK2_FLOW) EXCEPT !.loc.lastToken = TokFlag(@, "IsLoop")]
                 ELSE IF buf \in {<<"g","o","t","o">>, <<"b","r","e","a","k">>, <<"c","o","n","t","i","n","u","e">>}
                      THEN [To(SCE_AHK2_FLOW) EXCEPT !.loc.lastToken = TokFlag(@, "TakesLabel")]
                 ELSE To(SCE_AHK2_FLOW)
       ELSE IF InList(reservedWords, buf) THEN To(SCE_AHK2_ID_RESERVED)
       ELSE m

\* Lines 1000-1005: the substyle of an identifier whose style is still the base style.
IdSubStyle(a, base, buf) == IF a.sc.state = base /\ SubStyleFor(base, buf) >= 0 THEN ChangeState(a, SubStyleFor(base, buf)) ELSE a

\* Lines 938-1008: the identifier buf has ended.
IdEnd(m, buf) == SetState(IdSubStyle(IdKeyword(IdSpecial(m, buf), buf), m.sc.state, buf), SCE_AHK2_DEFAULT)

\* Lines 933-1009
CaseIdentifier(m) == IF isIdChar(m.sc.ch, TRUE) THEN m ELSE IdEnd(m, GetCurrentLowered(m))

\* A directive case that knows no string-argument list.
CaseDirectiveNoString(m) ==
    IF isIdChar(m.sc.ch, FALSE) THEN m
    ELSE LET name == From(GetCurrentLowered(m), 1)
         IN IF InList(directivesExpr, name) THEN SetState(m, SCE_AHK2_DEFAULT)
            ELSE IF InList({}, name)
                 THEN [SetState(m, SCE_AHK2_STRING) EXCEPT !.loc.lastToken = Tok(SCE_AHK2_STRING), !.loc.stringState = StrState(NUL, {"NoEndChar"})]
            ELSE SetState(m, SCE_AHK2_ERROR)

\* Lines 1011-1027
CaseDirective(m) ==
    IF isIdChar(m.sc.ch, FALSE) THEN m
    ELSE LET name == From(GetCurrentLowered(m), 1)
         IN IF InList(directivesExpr, name) THEN SetState(m, SCE_AHK2_DEFAULT)
            ELSE IF InList(directivesStr, name)
                 THEN [SetState(m, SCE_AHK2_STRING) EXCEPT !.loc.lastToken = Tok(SCE_AHK2_STRING), !.loc.stringState = StrState(NUL, {"NoEndChar"})]
            ELSE SetState(m, SCE_AHK2_ERROR)

\* Lines 793-1028: whether the current token ends at this character.
TokenEndPhase(m) ==
    CASE m.sc.state = SCE_AHK2_LABEL -> CaseLabel(m)
      [] m.sc.state = SCE_AHK2_COMMENT_BLOCK -> CaseCommentBlock(m)
      [] m.sc.state = SCE_AHK2_STRING -> CaseString(m)
      [] m.sc.state = SCE_AHK2_ESCAPE -> CaseEscape(m)
      [] m.sc.state = SCE_AHK2_OPERATOR -> CaseOperator(m)
      [] m.sc.state = SCE_AHK2_NUMBER -> CaseNumber(m)
      [] m.sc.state \in {SCE_AHK2_ID_TOP_LEVEL, SCE_AHK2_ID_OBJECT} -> CaseIdentifier(m)
      [] m.sc.state = SCE_AHK2_DIRECTIVE -> CaseDirective(m)
      [] OTHER -> m

\* Lines 1039-1066: the token a character starts in Default state.
NewToken(m) ==
    LET ch == m.sc.ch
    IN IF ch = DQUOTE \/ ch = "'" THEN [m EXCEPT !.loc.lastToken = Tok(SCE_AHK2_STRING), !.loc.stringState = StrState(ch, {})]
       ELSE IF isNumeric(ch, FALSE) \/ isValidPointDecimal(m)
            THEN [m EXCEPT !.loc.lastToken = Tok(SCE_AHK2_NUMBER),
                           !.loc.numIsHex = ch = "0" /\ (m.sc.chNext = "x" \/ m.sc.chNext = "X"),
                           !.loc.numParseState = IF ch # "." THEN 0 ELSE 1]
       ELSE IF isExprOpOrBrace(ch) \/ ch = "%" THEN [m EXCEPT !.loc.lastToken = Tok(SCE_AHK2_OPERATOR)]
       ELSE IF isIdChar(ch, FALSE)
            THEN [m EXCEPT !.loc.prevTokenForId = m.loc.lastToken,
                           !.loc.lastToken = Tok(IF m.sc.chPrev # "." THEN SCE_AHK2_ID_TOP_LEVEL ELSE SCE_AHK2_ID_OBJECT)]
       ELSE IF ch = "#" /\ m.loc.lastToken = Tok(SCE_AHK2_DEFAULT) /\ ~InContSect(m.ps)
            THEN [m EXCEPT !.loc.lastToken = Tok(SCE_AHK2_DIRECTIVE)]
       ELSE [m EXCEPT !.loc.lastToken = Tok(SCE_AHK2_ERROR)]

\* Lines 1031-1068: a new token starts unless one is open or this is blank.
NewTokenPhase(m) ==
    IF m.sc.state # SCE_AHK2_DEFAULT \/ m.sc.atLineEnd \/ isWhitespaceOrCR(m.sc.ch) THEN m
    ELSE LET a == NewToken(m) IN SetState(a, a.loc.lastToken.style)

\* A body in which the Error state lasts one character: the next character
\* starts a token as it does in Default state.
TokenPhasesErrorEnds(a) ==
    IF a.loc.cont THEN a
    ELSE IF a.loc.atLineStart THEN a
    ELSE IF a.sc.state = SCE_AHK2_ERROR THEN NewTokenPhase(SetState(a, SCE_AHK2_DEFAULT))
    ELSE IF isSameLineComment(a) /\ AllowLineComments(a.ps) THEN SetState(a, SCE_AHK2_COMMENT_LINE)
    ELSE NewTokenPhase(TokenEndPhase(a))

\* Lines 778-1068: the body after the line-start phases (a continue ends it).
TokenPhases(a) ==
    IF a.loc.cont THEN a
    ELSE IF a.loc.atLineStart \/ a.sc.state = SCE_AHK2_ERROR THEN a
    ELSE IF isSameLineComment(a) /\ AllowLineComments(a.ps) THEN SetState(a, SCE_AHK2_COMMENT_LINE)
    ELSE NewTokenPhase(TokenEndPhase(a))

\* Lines 619-1068: one iteration of the loop body.
LoopBody(m) == TokenPhases(FirstCharPhase(LineStartPhase([m EXCEPT !.loc.cont = FALSE])))

\* A ProcessLineEnd that takes the last token of every line, a line without
\* a token included.
ProcessLineEndAlways(m) ==
    LET ps == [m.ps EXCEPT !.finalToken = m.loc.lastToken, !.stringState = m.loc.stringState]
        line == m.sc.currentLine
    IN [m EXCEPT !.ps = ps,
                 !.cache = IF line \in DOMAIN @ THEN @ ELSE [l \in DOMAIN @ \cup {line} |-> IF l = line THEN ps ELSE @[l]],
                 !.ls = [@ EXCEPT ![line] = ps.contState]]

\* A line end that stores the snapshot and leaves the host's line state alone.
ProcessLineEndNoLineState(m) ==
    LET ps == IF m.loc.lastToken # Tok(SCE_AHK2_DEFAULT)
              THEN [m.ps EXCEPT !.finalToken = m.loc.lastToken, !.stringState = m.loc.stringState]
              ELSE m.ps
        line == m.sc.currentLine
    IN [m EXCEPT !.ps = ps,
                 !.cache = IF line \in DOMAIN @ THEN @ ELSE [l \in DOMAIN @ \cup {line} |-> IF l = line THEN ps ELSE @[l]]]

\* ProcessLineEnd; std::map::insert keeps an entry the line already has.
ProcessLineEnd(m) ==
    LET ps == IF m.loc.lastToken # Tok(SCE_AHK2_DEFAULT)
              THEN [m.ps EXCEPT !.finalToken = m.loc.lastToken, !.stringState = m.loc.stringState]
              ELSE m.ps
        line == m.sc.currentLine
    IN [m EXCEPT !.ps = ps,
                 !.cache = IF line \in DOMAIN @ THEN @ ELSE [l \in DOMAIN @ \cup {line} |-> IF l = line THEN ps ELSE @[l]],
                 !.ls = [@ EXCEPT ![line] = ps.contState]]

\* An advance that calls ProcessLineEnd also when swallowForward holds it back.
moveForwardCommitsHeld(m) ==
    IF m.loc.swallowForward THEN [(IF m.sc.atLineEnd THEN ProcessLineEnd(m) ELSE m) EXCEPT !.loc.swallowForward = FALSE]
    ELSE Forward(IF m.sc.atLineEnd THEN ProcessLineEnd(m) ELSE m)

\* Lines 607-616: moveForward
moveForward(m) ==
    IF m.loc.swallowForward THEN [m EXCEPT !.loc.swallowForward = FALSE]
    ELSE Forward(IF m.sc.atLineEnd THEN ProcessLineEnd(m) ELSE m)

\* ----------------------------------------------------- LexerAHK2::Fold
SC_FOLDLEVELBASE == 1024
SC_FOLDLEVELWHITEFLAG == 4096
SC_FOLDLEVELHEADERFLAG == 8192
LevelShift == 65536

\* styler.StyleAt(pos) on the host's styles; 0 beyond the document.
StyleAt(p) == IF p >= 0 /\ p < DocLen THEN styles[p + 1] ELSE SCE_AHK2_DEFAULT

\* styler.SafeGetCharAt(pos) with its default, a space.
SafeGetCharAt(p) == IF p >= 0 /\ p < DocLen THEN doc[p + 1] ELSE " "

\* A packed level that never has the header flag.
PackLevelNoHeader(levelCurrent, levelNext, white, header) ==
    levelCurrent + levelNext * LevelShift + (IF white THEN SC_FOLDLEVELWHITEFLAG ELSE 0)

\* levelCurrent | (levelNext << 16) | flags; the operands share no bit while
\* levelCurrent stays below the flag bits.
PackLevel(levelCurrent, levelNext, white, header) ==
    levelCurrent + levelNext * LevelShift + (IF white THEN SC_FOLDLEVELWHITEFLAG ELSE 0) + (IF header THEN SC_FOLDLEVELHEADERFLAG ELSE 0)

\* A level change that counts the braces of every style.
FoldDeltaAnyStyle(i, stylePrev, opts) ==
    LET ch == SafeGetCharAt(i)
    IN IF isOpeningBrace(ch) THEN 1 ELSE IF isClosingBrace(ch) THEN -1 ELSE 0

\* Lines 1104-1128: the change of levelNext at position i.
FoldDelta(i, stylePrev, opts) ==
    LET ch == SafeGetCharAt(i)
        chNext == SafeGetCharAt(i + 1)
        style == StyleAt(i)
        styleNext == StyleAt(i + 1)
        block == IF opts.FoldComment /\ style = SCE_AHK2_COMMENT_BLOCK
                 THEN IF stylePrev # SCE_AHK2_COMMENT_BLOCK THEN 1
                      ELSE IF styleNext # SCE_AHK2_COMMENT_BLOCK THEN -1 ELSE 0
                 ELSE 0
        marker == IF opts.FoldComment /\ style = SCE_AHK2_COMMENT_LINE /\ ch = ";"
                  THEN IF chNext = "{" THEN 1 ELSE IF chNext = "}" THEN -1 ELSE 0
                  ELSE 0
        brace == IF style = SCE_AHK2_OPERATOR
                 THEN IF isOpeningBrace(ch) THEN 1 ELSE IF isClosingBrace(ch) THEN -1 ELSE 0
                 ELSE 0
    IN block + marker + brace

\* Lines 1096-1160: one iteration of the loop of Fold on the state f.
FoldChar(f, i, endPos, opts) ==
    LET ch == SafeGetCharAt(i)
        chNext == SafeGetCharAt(i + 1)
        atEOL == (ch = CR /\ chNext # LF) \/ ch = LF
        levelNext == f.levelNext + FoldDelta(i, f.style, opts)
        level == PackLevel(f.levelCurrent, levelNext, f.bOnlySpaces /\ opts.FoldCompact, f.levelCurrent < levelNext)
        lastLine == atEOL /\ i = DocLen - 1
        lv1 == [f.lv EXCEPT ![f.lineCurrent] = level]
        lv2 == IF lastLine THEN [lv1 EXCEPT ![f.lineCurrent + 1] = PackLevel(levelNext, levelNext, TRUE, FALSE)] ELSE lv1
    IN IF atEOL \/ i = endPos - 1
       THEN [lv |-> lv2, lineCurrent |-> f.lineCurrent + 1, levelCurrent |-> levelNext, levelNext |-> levelNext,
             style |-> StyleAt(i), bOnlySpaces |-> isWhitespace(ch)]
       ELSE [f EXCEPT !.levelNext = levelNext, !.style = StyleAt(i), !.bOnlySpaces = @ /\ isWhitespace(ch)]

RECURSIVE FoldLoop(_, _, _, _)
FoldLoop(f, i, endPos, opts) == IF i < endPos THEN FoldLoop(FoldChar(f, i, endPos, opts), i + 1, endPos, opts) ELSE f

\* A Fold that takes its starting level from the line it starts on.
FoldStartStateSameLine(startPos, initStyle, lv) ==
    LET lineCurrent == GetLine(startPos)
    IN [lv |-> lv, lineCurrent |-> lineCurrent, levelCurrent |-> lv[lineCurrent] \div LevelShift, levelNext |-> lv[lineCurrent] \div LevelShift,
        style |-> initStyle, bOnlySpaces |-> TRUE]

\* A Fold that starts every pass from the base level.
FoldStartStateBase(startPos, initStyle, lv) ==
    [lv |-> lv, lineCurrent |-> GetLine(startPos), levelCurrent |-> SC_FOLDLEVELBASE, levelNext |-> SC_FOLDLEVELBASE,
     style |-> initStyle, bOnlySpaces |-> TRUE]

\* Lines 1083-1094: the state of Fold before its loop.
FoldStartState(startPos, initStyle, lv) ==
    LET lineCurrent == GetLine(startPos)
        levelCurrent == IF lineCurrent > 0 THEN lv[lineCurrent - 1] \div LevelShift ELSE SC_FOLDLEVELBASE
    IN [lv |-> lv, lineCurrent |-> lineCurrent, levelCurrent |-> levelCurrent, levelNext |-> levelCurrent,
        style |-> initStyle, bOnlySpaces |-> TRUE]

\* LexerAHK2::Fold: the fold levels after folding [startPos, startPos + lengthDoc).
FoldLevels(startPos, lengthDoc, initStyle, lv, opts) ==
    IF ~opts.Fold THEN lv
    ELSE FoldLoop(FoldStartState(startPos, initStyle, lv), startPos, startPos + lengthDoc, opts).lv

\* ------------------------------------------------------------- the host
\* The bundle of the running Lex activation, and the variables it is kept in.
Bundle == [sc |-> sc, styler |-> styler, ps |-> parserState, loc |-> loc, cache |-> parserStates, ls |-> lineState]

\* The values the activation's variables hold while no Lex call is running.
IdleSc == NewStyleContext(0, 0, SCE_AHK2_DEFAULT)

IdleStyler == NewStyler(0)

\* The style the host passes as initStyle: that of the character before startPos.
HostInitStyle(startPos) == IF startPos > 0 THEN styles[startPos] ELSE SCE_AHK2_DEFAULT

\* The positions a requested range may end at: a later line start or the document end.
RangeEnds(startLine) == {LineStart(l) : l \in (startLine + 1)..LastLine} \cup {DocLen}

\* Lines 576-589: the seed of the parser state and the purge of the stale snapshots.
SeedState(startLine) == IF startLine - 1 \in DOMAIN parserStates THEN parserStates[startLine - 1] ELSE ZeroParserState

\* An erase that starts after the starting line (upper_bound for lower_bound).
EraseAfter(startLine) == [l \in {k \in DOMAIN parserStates : k <= startLine} |-> parserStates[l]]

EraseFrom(startLine) == [l \in {k \in DOMAIN parserStates : k < startLine} |-> parserStates[l]]

\* sc.Complete(): the last token is coloured and the style buffer is flushed to the host.
Complete(m) == ColourTo(m, ColourEnd(m), m.sc.state)

Flushed(buf, startPos) == [i \in 1..DocLen |-> IF i - 1 >= startPos /\ i - 1 < startPos + Len(buf) THEN buf[i - startPos] ELSE styles[i]]

NoPass == [set |-> FALSE]

NoRange == [start |-> 0, end |-> 0, initStyle |-> SCE_AHK2_DEFAULT]

\* The host starts a Lex call on the lines from startLine, up to endRange.
LexStart(startLine, endRange) ==
    /\ pc = "idle"
    /\ LineStart(startLine) <= endStyled
    /\ LineStart(startLine) < endRange
    /\ parserState' = SeedState(startLine)
    /\ parserStates' = EraseFrom(startLine)
    /\ loc' = NewLocals
    /\ sc' = NewStyleContext(LineStart(startLine), endRange, HostInitStyle(LineStart(startLine)))
    /\ styler' = NewStyler(LineStart(startLine))
    /\ endStyled' = LineStart(startLine)
    /\ hist' = [hist EXCEPT !.cold = parserStates = << >>, !.full = startLine = 0 /\ endRange = DocLen,
                            !.range = [start |-> LineStart(startLine), end |-> endRange, initStyle |-> HostInitStyle(LineStart(startLine))]]
    /\ pc' = "body"
    /\ UNCHANGED <<doc, options, styles, lineState, levels>>

\* The running activation is left as the bundle r.
Store(r) ==
    /\ sc' = r.sc
    /\ styler' = r.styler
    /\ parserState' = r.ps
    /\ loc' = [r.loc EXCEPT !.cont = FALSE]
    /\ parserStates' = r.cache
    /\ lineState' = r.ls

\* One iteration of the loop body (sc.More() holds).
LexBody ==
    /\ pc = "body"
    /\ sc.currentPos < sc.endPos
    /\ Store(LoopBody(Bundle))
    /\ pc' = "advance"
    /\ UNCHANGED <<doc, options, styles, endStyled, levels, hist>>

\* The loop's increment, moveForward().
LexAdvance ==
    /\ pc = "advance"
    /\ Store(moveForward(Bundle))
    /\ pc' = "body"
    /\ UNCHANGED <<doc, options, styles, endStyled, levels, hist>>

\* A Lex that returns without sc.Complete().
LexFinishMissing(m) == m

\* Line 1071: sc.Complete() ends the last token.
LexFinish(m) == Complete(m)

\* The loop has ended: sc.Complete(), the flush of the styles, and the return to the host.
LexComplete ==
    /\ pc = "body"
    /\ ~(sc.currentPos < sc.endPos)
    /\ styler' = LexFinish(Bundle).styler
    /\ styles' = Flushed(styler'.styleBuf, styler'.startPosStyling)
    /\ endStyled' = styler'.startPosStyling + Len(styler'.styleBuf)
    /\ hist' = IF hist.full /\ hist.cold /\ ~hist.first.set
               THEN [hist EXCEPT !.first = [set |-> TRUE, styles |-> styles', cache |-> parserStates]]
               ELSE hist
    /\ pc' = "fold"
    /\ UNCHANGED <<doc, options, lineState, levels, parserStates, sc, parserState, loc>>

\* The host folds the range it has just lexed (Fold returns at once when folding is off).
Fold ==
    /\ pc = "fold"
    /\ levels' = FoldLevels(hist.range.start, hist.range.end - hist.range.start, hist.range.initStyle, levels, options)
    /\ hist' = IF hist.full /\ hist.cold /\ ~hist.firstFold.set
               THEN [hist EXCEPT !.firstFold = [set |-> TRUE, levels |-> levels'], !.range = NoRange, !.cold = FALSE, !.full = FALSE]
               ELSE [hist EXCEPT !.range = NoRange, !.cold = FALSE, !.full = FALSE]
    /\ pc' = "idle"
    /\ sc' = IdleSc
    /\ styler' = IdleStyler
    /\ parserState' = ZeroParserState
    /\ loc' = NewLocals
    /\ UNCHANGED <<doc, options, styles, endStyled, lineState, parserStates>>

\* LexerFactoryAHK2: the host replaces the lexer by a new instance, whose cache is empty.
LexerFactoryAHK2 ==
    /\ pc = "idle"
    /\ parserStates # << >>
    /\ parserStates' = << >>
    /\ endStyled' = 0
    /\ UNCHANGED <<doc, options, styles, lineState, levels, pc, sc, styler, parserState, loc, hist>>

\* The state after the host has loaded document d and created the lexer.
InitWith(d, opts) ==
    /\ doc = d
    /\ options = opts
    /\ styles = [i \in 1..Len(d) |-> SCE_AHK2_DEFAULT]
    /\ endStyled = 0
    /\ lineState = [l \in 0..Cardinality({i \in DOMAIN d : d[i] = LF}) |-> {}]
    /\ levels = [l \in 0..Cardinality({i \in DOMAIN d : d[i] = LF}) |-> SC_FOLDLEVELBASE]
    /\ parserStates = << >>
    /\ pc = "idle"
    /\ sc = IdleSc
    /\ styler = IdleStyler
    /\ parserState = ZeroParserState
    /\ loc = NewLocals
    /\ hist = [cold |-> FALSE, full |-> FALSE, range |-> NoRange, first |-> NoPass, firstFold |-> NoPass]

Next ==
    \/ \E startLine \in 0..LastLine : \E endRange \in RangeEnds(startLine) : LexStart(startLine, endRange)
    \/ LexBody
    \/ LexAdvance
    \/ LexComplete
    \/ Fold
    \/ LexerFactoryAHK2

\* All strings over alphabet of length 1..n.
RECURSIVE Strings(_, _)
Strings(alphabet, n) == IF n = 0 THEN {<< >>} ELSE LET shorter == Strings(alphabet, n - 1) IN shorter \cup {Append(t, c) : t \in shorter, c \in alphabet}

DocsOver(alphabet) == Strings(alphabet, MaxLen) \ {<< >>}

\* The document made of the given lines, a line end between each two.
RECURSIVE Join(_)
Join(lines) == IF Len(lines) = 0 THEN << >> ELSE IF Len(lines) = 1 THEN lines[1] ELSE lines[1] \o <<LF>> \o Join(Tail(lines))

\* All documents of 1..MaxLines lines, each line one of the templates.
LineDocs(templates) == {Join(ls) : ls \in UNION {[1..n -> templates] : n \in 1..MaxLines}}

\* ------------------------------------------------------------- specifications
DefaultOptions == [Fold |-> TRUE, FoldComment |-> TRUE, FoldCompact |-> FALSE]

\* Documents of every shape over small alphabets: block comments, strings with
\* escapes, continuation sections.
GeneralAlphabets == {{"/", "*", LF, "a"}, {BACKTICK, DQUOTE, LF, "a"}, {"(", ")", LF, DQUOTE}}

GeneralDocs == UNION {DocsOver(alphabet) : alphabet \in GeneralAlphabets}

Init == \E d \in GeneralDocs : InitWith(d, DefaultOptions)

Spec == Init /\ [][Next]_vars

\* The host that always lexes to the end of the document.
NextToEnd ==
    \/ \E startLine \in 0..LastLine : LexStart(startLine, DocLen)
    \/ LexBody
    \/ LexAdvance
    \/ LexComplete
    \/ Fold
    \/ LexerFactoryAHK2

\* Lines around block comments.
CommentLines == {<<"/", "*", "/">>, <<"/", "*">>, <<"*", "/">>, <<"a">>, << >>}

InitReLex == \E d \in LineDocs(CommentLines) \ {<< >>} : InitWith(d, DefaultOptions)

SpecReLex == InitReLex /\ [][Next]_vars

\* Lines around continuation sections: a string left open, openers with and
\* without options, closers.
ContSectLines == {<<DQUOTE>>, <<"(">>, <<"(", "c">>, <<")">>, <<" ", ")">>}

InitCont == \E d \in LineDocs(ContSectLines) : InitWith(d, DefaultOptions)

SpecCont == InitCont /\ [][Next]_vars

\* An optional second line after the line under test.
Tails == {<< >>, <<LF, "y">>}

\* Triggers: no "::" inside, no ':' at either end.
Triggers ==
    {t \in Strings({"b", ":", " "}, MaxLen - 1) \ {<< >>} :
        /\ t[1] # ":"
        /\ t[Len(t)] # ":"
        /\ \A i \in 1..(Len(t) - 1) : ~(t[i] = ":" /\ t[i + 1] = ":")}

Replacements == Strings({"y", ":"}, MaxLen - 2)

\* Hotstring lines without options, ::trigger::replacement.
HotstringDocs == {<<":", ":">> \o t \o <<":", ":">> \o r \o tail : t \in Triggers, r \in Replacements, tail \in Tails}

InitHotstring == \E d \in HotstringDocs : InitWith(d, DefaultOptions)

SpecHotstring == InitHotstring /\ [][NextToEnd]_vars

\* Keys of hotkeys: a character, a name, a key with a modifier, the colon.
HotkeyKeys == {<<"a">>, <<"f", "2">>, <<"^", "a">>, <<":">>}

\* Targets: a character and a named key (remaps), then code.
HotkeyTargets == {<<"b">>, <<"e", "s", "c">>, <<"m", "b">>, <<"m", "(", ")">>}

HotkeyDocs == {k \o <<":", ":">> \o t \o tail : k \in HotkeyKeys, t \in HotkeyTargets, tail \in Tails}

InitHotkey == \E d \in HotkeyDocs : InitWith(d, DefaultOptions)

SpecHotkey == InitHotkey /\ [][NextToEnd]_vars

\* One-line documents that start with a digit, around number literals: the
\* digit, the hex prefix, the decimal point, the exponent marker (a hex digit
\* too), a sign, a space.
NumberChars == {"0", "x", ".", "e", "+", " "}

NumberDocs == {<<"0">> \o t : t \in Strings(NumberChars, MaxLen)}

InitNumber == \E d \in NumberDocs : InitWith(d, DefaultOptions)

SpecNumber == InitNumber /\ [][NextToEnd]_vars

\* Directive lines #name argument: a string-argument name in either case, an
\* expression-argument name and an unknown name; no argument, or one that
\* starts with an identifier, a quote or a number.
DirectiveNames == {<<"r">>, <<"R">>, <<"h", "o", "t", "i", "f">>, <<"q">>}

DirectiveArgs == {<< >>, <<" ", "a">>, <<" ", DQUOTE, "a">>, <<" ", "0">>}

DirectiveDocs == {<<"#">> \o n \o a \o tail : n \in DirectiveNames, a \in DirectiveArgs, tail \in Tails}

InitDirective == \E d \in DirectiveDocs : InitWith(d, DefaultOptions)

SpecDirective == InitDirective /\ [][NextToEnd]_vars

\* Lines of code with braces: a function header that opens a block, a call,
\* the closing brace.
BraceLines == {<<"f", "(", ")", " ", "{">>, <<" ", "b", "(", ")">>, <<"}">>}

InitBrace == \E d \in LineDocs(BraceLines) : InitWith(d, DefaultOptions)

SpecBrace == InitBrace /\ [][Next]_vars

\* The settings of the fold options: folding off, and folding on with each
\* setting of fold.comment and fold.compact.
FoldOptions ==
    {[Fold |-> FALSE, FoldComment |-> TRUE, FoldCompact |-> FALSE]}
    \cup {[Fold |-> TRUE, FoldComment |-> c, FoldCompact |-> w] : c \in BOOLEAN, w \in BOOLEAN}

\* Lines with fold points of each kind: a brace, a blank line, the opener of
\* a block comment, a closing fold marker in a line comment.
FoldLines == {<<"{">>, <<" ">>, <<"/", "*">>, <<";", "}">>}

InitFold == \E d \in LineDocs(FoldLines) : \E o \in FoldOptions : InitWith(d, o)

SpecFold == InitFold /\ [][NextToEnd]_vars

\* Documents with a character that starts no token, an identifier character,
\* a space and line ends.
StrayChars == {"@", "a", " ", LF}

InitStray == \E d \in DocsOver(StrayChars) : InitWith(d, DefaultOptions)

SpecStray == InitStray /\ [][Next]_vars

\* Lines with a ';' first on the line or after a space: plain, after a string
\* left open, after a character that starts no token; with them the openers
\* of a continuation section without and with the comments option, its
\* closer and the opener of a block comment.
SemicolonLines == {<<";">>, <<"a", " ", ";">>, <<DQUOTE, " ", ";">>, <<"@", " ", ";">>, <<"(">>, <<"(", " ", "c">>, <<")">>, <<"/", "*">>}

InitSemicolon == \E d \in LineDocs(SemicolonLines) : InitWith(d, DefaultOptions)

SpecSemicolon == InitSemicolon /\ [][NextToEnd]_vars

\* Documents that open a string: backticks before escapable characters, before
\* line ends and at the end of the document, closing quotes, line ends.
EscapeChars == {BACKTICK, DQUOTE, "a", LF}

EscapeDocs == {<<DQUOTE>> \o t : t \in Strings(EscapeChars, MaxLen)}

InitEscape == \E d \in EscapeDocs : InitWith(d, DefaultOptions)

SpecEscape == InitEscape /\ [][Next]_vars

\* Lines that start no token (blank, a comment, the opener of a block comment,
\* the openers of a continuation section) among lines that do: an
\* identifier, a string left open, the closer of a section.
QuietLines == {<<" ">>, <<";">>, <<"/", "*">>, <<"(">>, <<"(", " ", "c">>, <<")">>, <<DQUOTE>>, <<"a">>}

InitQuiet == \E d \in LineDocs(QuietLines) : InitWith(d, DefaultOptions)

SpecQuiet == InitQuiet /\ [][NextToEnd]_vars

\* Lines around block comments: the opener, the closer as the first text of
\* a line, alone and with text after it, the closer at the end of a line,
\* and a closer with text after it.
BlockLines == {<<"/", "*">>, <<"*", "/">>, <<"*", "/", "a">>, <<"a", "*", "/">>, <<"a", "*", "/", "a">>, <<"a">>}

InitBlock == \E d \in LineDocs(BlockLines) : InitWith(d, DefaultOptions)

SpecBlock == InitBlock /\ [][Next]_vars

\* Lines before a continuation section (a string left open, a hotstring, an
\* identifier), openers of a section (bare, with the no-escape option, with
\* the comments option and a comment, with an escape sequence in the option
\* text) and its closer.
OpenerLines == {<<DQUOTE>>, <<":", ":", "a", ":", ":">>, <<"a">>, <<"(">>, <<"(", " ", BACKTICK>>, <<"(", " ", "c", " ", ";">>, <<"(", " ", BACKTICK, "n">>, <<")">>}

InitOpener == \E d \in LineDocs(OpenerLines) : InitWith(d, DefaultOptions)

SpecOpener == InitOpener /\ [][NextToEnd]_vars

\* One-line documents that start with '(': option words and what is no
\* option, a ':' and further parentheses.
OptionChars == {"c", "o", "C", BACKTICK, " ", ":", "(", ")"}

OptionDocs == {<<"(">> \o t : t \in Strings(OptionChars, MaxLen)}

InitOption == \E d \in OptionDocs : InitWith(d, DefaultOptions)

SpecOption == InitOption /\ [][NextToEnd]_vars

\* Hotstring lines with options, :options:trigger::body: options with and
\* without the x option, a trigger with a ':' inside, bodies that are code.
HotstringOptions == {<<"x">>, <<"X">>, <<"c">>, <<"c", "x">>, <<"*">>, <<" ", "x">>}

OptionTriggers == {<<"b">>, <<"b", ":", "b">>}

Bodies == {<< >>, <<"y">>, <<"0">>, <<"y", " ", "0">>}

OptionHotstringDocs == {<<":">> \o o \o <<":">> \o t \o <<":", ":">> \o b \o tail : o \in HotstringOptions, t \in OptionTriggers, b \in Bodies, tail \in Tails}

InitOptionHotstring == \E d \in OptionHotstringDocs : InitWith(d, DefaultOptions)

SpecOptionHotstring == InitOptionHotstring /\ [][NextToEnd]_vars

\* One-line documents that open a quoted string: quotes, semicolons with and
\* without a space before them, string text.
QuotedChars == {DQUOTE, ";", " ", "a"}

QuotedDocs == {<<DQUOTE>> \o t : t \in Strings(QuotedChars, MaxLen)}

InitQuoted == \E d \in QuotedDocs : InitWith(d, DefaultOptions)

SpecQuoted == InitQuoted /\ [][NextToEnd]_vars

\* Hotkey lines whose key has the up modifier after it, and the same lines
\* without it.
UpKeys == {<<"a">>, <<"f", "2">>, <<"^", "a">>}

UpModifiers == {<< >>, <<" ", "u", "p">>, <<" ", "U", "p">>, <<" ", "u", "p", " ">>}

UpDocs == {k \o u \o <<":", ":">> \o t \o tail : k \in UpKeys, u \in UpModifiers, t \in HotkeyTargets, tail \in Tails}

InitUp == \E d \in UpDocs : InitWith(d, DefaultOptions)

SpecUp == InitUp /\ [][NextToEnd]_vars

\* Lines made of a first word, what separates it from a second word (only
\* whitespace, another token, or a line break), the second word and a third.
FollowHeads == {<<"g","o","t","o">>, <<"l","o","o","p">>, <<"i","f">>}

FollowSeparators == {<<" ">>, <<" ","0"," ">>, <<" ","+"," ">>, <<" ",DQUOTE,DQUOTE," ">>, <<LF>>}

Followers == {<<"x">>, <<"i","f">>, <<"a","n","d">>, <<"r","e","g">>, <<"l","o","o","p">>, <<"g","o","t","o">>}

FollowTails == {<< >>, <<" ","i","f">>, <<" ","r","e","g">>}

FollowDocs == {h \o s \o f \o t : h \in FollowHeads, s \in FollowSeparators, f \in Followers, t \in FollowTails}

InitFollow == \E d \in FollowDocs : InitWith(d, DefaultOptions)

SpecFollow == InitFollow /\ [][NextToEnd]_vars

\* Lines of every type the lookahead tells apart, a line that is an opener
\* and a hotkey at once, and lines that start inside a block comment or a
\* continuation section.
LookaheadLines == {<<"/","*">>, <<"*","/","x",":">>, <<"x",":">>, <<"g","e","t">>, <<"("," ",":",":","a">>, <<")">>, <<"a",":",":","b">>, <<":",":","a",":",":">>}

InitLookahead == \E d \in LineDocs(LookaheadLines) : InitWith(d, DefaultOptions)

SpecLookahead == InitLookahead /\ [][NextToEnd]_vars

\* Lines with a '#' at their start, after a word, after the closer of a
\* continuation section and after the "::" of a hotkey.
HashLines == {<<"(">>, <<")","#","r">>, <<"#","r">>, <<" ","#","r">>, <<"a"," ","#","r">>, <<"a",":",":","#","q","q">>, <<"a">>}

InitHash == \E d \in LineDocs(HashLines) : InitWith(d, DefaultOptions)

SpecHash == InitHash /\ [][NextToEnd]_vars

\* Lines with braces styled Operator, a brace in a string, a brace in a
\* block comment, the closer of a block comment, and the fold markers of a
\* line comment, folded under each setting of the fold options.
FoldStyleLines == {<<"{">>, <<"]">>, <<DQUOTE, "(", DQUOTE>>, <<"/", "*", "{">>, <<"*", "/">>, <<";", "{">>, <<";", "}">>}

InitFoldStyle == \E d \in LineDocs(FoldStyleLines) : \E o \in FoldOptions : InitWith(d, o)

SpecFoldStyle == InitFoldStyle /\ [][NextToEnd]_vars

\* ------------------------------------------------------------- properties
\* A Lex call is returning to the host (the step LexComplete).
Returning == pc = "body" /\ pc' = "fold"

\* The positions the returning call has styled.
StyledRange == hist.range.start..(hist.range.end - 1)

\* C1: once one pass over the whole document from an empty cache has been made,
\* a Lex call restarted at the start of a line N > 0 (seeded with the snapshot
\* of line N-1, initStyle the style before the line) gives every character it
\* styles the style the full pass gave it.
C1_ReLexConsistent ==
    [][(Returning /\ hist.first.set /\ hist.range.start > 0)
        => \A p \in StyledRange : styles'[p + 1] = hist.first.styles[p + 1]]_vars

\* The tokens the returning call has emitted, in order.
Tokens == styler.tokens

\* C2: when a Lex call returns, the tokens it emitted tile the range it was
\* asked to style: the first starts at the range start, each next one starts
\* where the previous one ended, the last ends at the range end, so every
\* character of the range has exactly one style, that of its token.
C2_TokensTile ==
    pc = "fold" =>
        /\ Len(Tokens) > 0
        /\ Tokens[1].first = hist.range.start
        /\ Tokens[Len(Tokens)].last = hist.range.end - 1
        /\ \A i \in 1..Len(Tokens) : Tokens[i].first <= Tokens[i].last /\ (i > 1 => Tokens[i].first = Tokens[i - 1].last + 1)
        /\ \A p \in StyledRange :
             /\ Cardinality({i \in 1..Len(Tokens) : Tokens[i].first <= p /\ p <= Tokens[i].last}) = 1
             /\ \E i \in 1..Len(Tokens) : Tokens[i].first <= p /\ p <= Tokens[i].last /\ styles[p + 1] = Tokens[i].style
        /\ endStyled = hist.range.end

\* A call on a range that does not start the document returns several tokens, one of them longer than a character.
C2_Witness ==
    /\ pc = "fold"
    /\ hist.range.start > 0
    /\ Len(Tokens) >= 2
    /\ \E i \in 1..Len(Tokens) : Tokens[i].last > Tokens[i].first

\* What is left of the loop of the running call: twice the distance to the end
\* of the range, one more in the Escape state, the advance of a pending
\* moveForward taken off.
Measure ==
    2 * (sc.endPos - sc.currentPos) + (IF sc.state = SCE_AHK2_ESCAPE THEN 1 ELSE 0)
    - (IF pc = "advance" /\ ~loc.swallowForward /\ sc.currentPos < sc.endPos THEN 2 ELSE 0)

InLoop == pc \in {"body", "advance"}

\* C3: every Lex call returns, at the end of its range, without a failure.
\* Each iteration of the loop makes Measure smaller (the body that sets
\* swallowForward has itself advanced the position, or has turned the Escape
\* state into String at the same position, else moveForward advances) and
\* Measure is never negative, so the loop ends; swallowForward is cleared by
\* the moveForward of the same iteration; no ColourTo fails its assertion;
\* and the position at the return is the end of the range.
C3_Terminates ==
    /\ [][(InLoop /\ InLoop') => Measure' <= Measure /\ (pc = "body" => Measure' < Measure)]_vars
    /\ [][(pc = "body" /\ pc' = "advance" /\ loc'.swallowForward)
           => \/ sc'.currentPos > sc.currentPos
              \/ sc.state = SCE_AHK2_ESCAPE /\ sc'.state = SCE_AHK2_STRING]_vars
    /\ [][(pc = "advance" /\ pc' = "body") => ~loc'.swallowForward]_vars
    /\ [](InLoop => Measure >= 0)
    /\ [](~styler.asserted)
    /\ [](pc = "fold" => sc.currentPos = sc.endPos)

\* A call has returned after an iteration that kept its position to close an escape token.
C3_Witness ==
    /\ pc = "fold"
    /\ \E i \in 1..Len(Tokens) : Tokens[i].style = SCE_AHK2_ESCAPE
    /\ \E i \in 1..Len(Tokens) : Tokens[i].style = SCE_AHK2_COMMENT_BLOCK \/ Tokens[i].style = SCE_AHK2_STRING

\* The call that is returning, or the Fold after it, is a pass over the whole
\* document that started from an empty cache, and an earlier such pass is on record.
SecondColdPass == hist.cold /\ hist.full /\ hist.firstFold.set

\* C4: a pass of Lex and Fold over the whole, unchanged document from an empty
\* cache gives the styles, the cached snapshots and the fold levels that the
\* first such pass gave.
C4_Idempotent ==
    /\ []((pc = "fold" /\ SecondColdPass) => styles = hist.first.styles /\ parserStates = hist.first.cache)
    /\ [][(pc = "fold" /\ SecondColdPass) => levels' = hist.firstFold.levels]_vars

\* A second pass from an empty cache has returned on a document of several
\* lines whose first pass styled a block comment and left fold levels that differ.
C4_Witness ==
    /\ pc = "fold"
    /\ SecondColdPass
    /\ LastLine >= 2
    /\ \E p \in 1..DocLen : styles[p] = SCE_AHK2_COMMENT_BLOCK
    /\ \E l \in DOMAIN levels : levels[l] # levels[0]

\* The line a running call started on.
StartLine == GetLine(hist.range.start)

\* C5: a Lex call that starts at line N takes its parser state from the
\* snapshot of line N-1 (the zero state when there is none) and drops every
\* snapshot of a line >= N, keeping those of the lines before; while it runs,
\* no snapshot it has is changed or dropped, and the only snapshots that appear
\* are those of the line ends it reaches, each for a line >= N and equal to the
\* parser state at that line end; when it returns, every line of its range
\* has a snapshot.
C5_CacheDiscipline ==
    /\ [][(pc = "idle" /\ pc' = "body")
           => /\ parserState' = IF StartLine' - 1 \in DOMAIN parserStates THEN parserStates[StartLine' - 1] ELSE ZeroParserState
              /\ DOMAIN parserStates' = {l \in DOMAIN parserStates : l < StartLine'}
              /\ \A l \in DOMAIN parserStates' : parserStates'[l] = parserStates[l]]_vars
    /\ [][InLoop
           => /\ \A l \in DOMAIN parserStates : l \in DOMAIN parserStates' /\ parserStates'[l] = parserStates[l]
              /\ \A l \in DOMAIN parserStates' \ DOMAIN parserStates :
                   l >= StartLine /\ l = sc.currentLine /\ parserStates'[l] = parserState']_vars
    /\ [](pc = "fold" => \A l \in StartLine..GetLine(hist.range.end - 1) : l \in DOMAIN parserStates)

\* A call started on a later line, after a pass over the whole document, with a
\* seed that is not the zero state, has committed a snapshot of its own.
C5_Witness ==
    /\ pc = "advance"
    /\ hist.first.set
    /\ StartLine > 0
    /\ parserStates[StartLine - 1] # ZeroParserState
    /\ StartLine \in DOMAIN parserStates
    /\ parserStates[StartLine] # parserStates[StartLine - 1]

\* Every parser state there is: the running one and the cached snapshots.
ParserStates == {parserState} \cup {parserStates[l] : l \in DOMAIN parserStates}

\* C6: the contState of every parser state, the running one and each cached
\* snapshot, is empty or has the Inside flag: String, Comments and NoEscape
\* never stand without it.
C6_FlagsNeedInside == \A ps \in ParserStates : ps.contState = {} \/ "Inside" \in ps.contState

\* A snapshot taken inside a string-valued section whose opener gave an option,
\* and a later snapshot taken after the section was closed.
C6_Witness ==
    \E k, l \in DOMAIN parserStates :
        /\ k < l
        /\ {"Inside", "String"} \subseteq parserStates[k].contState
        /\ parserStates[k].contState \cap {"Comments", "NoEscape"} # {}
        /\ parserStates[l].contState = {}

\* The first character of line l that is not whitespace (NUL when there is none).
FirstText(l) ==
    LET text == {p \in LineStart(l)..(LineEnd(l) - 1) : ~isWhitespace(CharAt(p))}
    IN IF text = {} THEN NUL ELSE CharAt(CHOOSE p \in text : \A q \in text : p <= q)

\* The running call is at the first text of its line, and that text is ')'.
AtCloser ==
    /\ pc = "body"
    /\ sc.currentPos < sc.endPos
    /\ sc.ch = ")"
    /\ \A p \in LineStart(sc.currentLine)..(sc.currentPos - 1) : isWhitespace(CharAt(p))

\* C7: while a continuation section is open its contState is not changed by
\* any step of the loop but the one at a ')' that is the first text of a line,
\* which empties it; so each snapshot of a line after an open section's line
\* has that line's contState unless the line starts with ')', a '(' line
\* inside the section opens nothing and changes no flag, and a document with
\* no such ')' line ends inside the section.
C7_SectionPersists ==
    /\ [][(InLoop /\ "Inside" \in parserState.contState /\ parserState'.contState # parserState.contState)
           => AtCloser /\ parserState'.contState = {}]_vars
    /\ [](\A l \in DOMAIN parserStates :
            (l > 0 /\ "Inside" \in parserStates[l - 1].contState /\ FirstText(l) # ")")
                => parserStates[l].contState = parserStates[l - 1].contState)

\* A section opened with an option is still open, flags unchanged, two lines on, after a '(' line.
C7_Witness ==
    /\ 2 \in DOMAIN parserStates
    /\ "Comments" \in parserStates[0].contState
    /\ FirstText(1) = "("
    /\ parserStates[2].contState = parserStates[0].contState

\* The last token the running call has emitted.
LastToken == Tokens[Len(Tokens)]

\* C8: the step at the ')' that closes a section styles that one character
\* Operator, empties contState and sets swallowForward; after it the state
\* is String, with the pending string's terminator as the string state, when
\* the section was string-valued, and Default otherwise.
C8_SectionClose ==
    [][(AtCloser /\ "Inside" \in parserState.contState)
        => /\ pc' = "advance"
           /\ parserState'.contState = {}
           /\ sc'.currentPos = sc.currentPos + 1
           /\ Tokens' # << >>
           /\ LastToken' = [first |-> sc.currentPos, last |-> sc.currentPos, style |-> SCE_AHK2_OPERATOR]
           /\ loc'.swallowForward
           /\ IF "String" \in parserState.contState
              THEN /\ sc'.state = SCE_AHK2_STRING
                   /\ loc'.stringState = parserState.stringState
                   /\ loc'.stringState.endChar # NUL
                   /\ loc'.lastToken = Tok(SCE_AHK2_STRING)
              ELSE sc'.state = SCE_AHK2_DEFAULT]_vars

\* A string-valued section has just been closed: the state is String again, with the terminator of the string left open before the section.
C8_Witness ==
    /\ pc = "advance"
    /\ loc.swallowForward
    /\ sc.chPrev = ")"
    /\ parserState.contState = {}
    /\ sc.state = SCE_AHK2_STRING
    /\ loc.stringState.endChar = DQUOTE
    /\ sc.currentLine >= 2
    /\ "String" \in parserStates[sc.currentLine - 1].contState

\* A call that started at the top of the document has returned.
Line0Lexed == pc = "fold" /\ hist.range.start = 0

\* The last position of line 0, its line end included.
Line0Last == IF LastLine > 0 THEN LineEnd(0) ELSE DocLen - 1

\* Where the "::" that ends the trigger of the hotstring line 0 is.
TriggerEnd == StrStr(doc, 2, <<":", ":">>)

\* C9: of a line ::trigger::replacement the leading "::" is Operator, the
\* trigger String (a ':' in it that no ':' follows included), the middle
\* "::" Operator, and the replacement String up to and with the line end, and
\* not beyond: the line's snapshot has a String with no terminator, and the
\* next line starts in Default.
C9_Hotstring ==
    Line0Lexed =>
        /\ StyleAt(0) = SCE_AHK2_OPERATOR /\ StyleAt(1) = SCE_AHK2_OPERATOR
        /\ \A p \in 2..(TriggerEnd - 1) : StyleAt(p) = SCE_AHK2_STRING
        /\ StyleAt(TriggerEnd) = SCE_AHK2_OPERATOR /\ StyleAt(TriggerEnd + 1) = SCE_AHK2_OPERATOR
        /\ \A p \in (TriggerEnd + 2)..Line0Last : StyleAt(p) = SCE_AHK2_STRING
        /\ parserStates[0].finalToken = Tok(SCE_AHK2_STRING)
        /\ parserStates[0].stringState = StrState(NUL, {"NoEndChar"})
        /\ LastLine > 0 => StyleAt(LineStart(1)) = SCE_AHK2_ID_TOP_LEVEL

\* The line lexed has a ':' inside its trigger and a replacement with "::" in it, and a line after it.
C9_Witness ==
    /\ Line0Lexed
    /\ \E p \in 3..(TriggerEnd - 2) : CharAt(p) = ":"
    /\ \E p \in (TriggerEnd + 2)..(Line0Last - 2) : CharAt(p) = ":" /\ CharAt(p + 1) = ":"
    /\ LastLine > 0

\* Where the "::" that ends the key of the hotkey line 0 is: the first one after the first character.
KeyEnd == StrStr(doc, 1, <<":", ":">>)

\* The target of the hotkey line 0.
Target == [i \in 1..(LineEnd(0) - KeyEnd - 2) |-> CharAt(KeyEnd + 1 + i)]

\* The target is a single character or a named key.
TargetIsKey == Len(Target) = 1 \/ InList(namedKeys, Target)

\* C10: of a line key::action with a valid key, the key is Label and the
\* "::" Operator; when the target is a single character or a named key,
\* isRemap is true and the target is String up to and with the line end;
\* otherwise isRemap is false and the action starts as code does in Default
\* (here with an identifier).
C10_Hotkey ==
    Line0Lexed =>
        /\ \A p \in 0..(KeyEnd - 1) : StyleAt(p) = SCE_AHK2_LABEL
        /\ StyleAt(KeyEnd) = SCE_AHK2_OPERATOR /\ StyleAt(KeyEnd + 1) = SCE_AHK2_OPERATOR
        /\ IF TargetIsKey
           THEN \A p \in (KeyEnd + 2)..Line0Last : StyleAt(p) = SCE_AHK2_STRING
           ELSE StyleAt(KeyEnd + 2) = SCE_AHK2_ID_TOP_LEVEL
        /\ LastLine = 0 => loc.isRemap = TargetIsKey

\* The state a token that ends before position p leaves: the style of the
\* character at p, or at the end of the document the state Lex ended in.
AfterState(p) == IF p < DocLen THEN StyleAt(p) ELSE sc.state

\* The document starts with the hex prefix; HexEnd is where its hex digits end.
HexPrefix == CharAt(0) = "0" /\ CharAt(1) \in {"x", "X"}

HexEnd == SkipWhile(doc, 2, {x \in Range(doc) : isHexNumeric(x)})

\* The shape of a decimal literal at the start of the document: the integer
\* part ends at IntEnd, the optional fraction at FracEnd, the digits of the
\* optional exponent start at ExpStart, and the literal ends at DecEnd.
IntEnd == SkipWhile(doc, 0, {x \in Range(doc) : isNumeric(x, FALSE)})

FracEnd == IF CharAt(IntEnd) = "." THEN SkipWhile(doc, IntEnd + 1, {x \in Range(doc) : isNumeric(x, FALSE)}) ELSE IntEnd

HasExponent == CharAt(FracEnd) \in {"e", "E"}

ExpStart == IF CharAt(FracEnd + 1) \in {"+", "-"} THEN FracEnd + 2 ELSE FracEnd + 1

DecEnd == IF HasExponent THEN SkipWhile(doc, ExpStart, {x \in Range(doc) : isNumeric(x, FALSE)}) ELSE FracEnd

\* A well-formed decimal literal that no identifier character follows.
DecimalLiteral == ~HexPrefix /\ IntEnd > 0 /\ (HasExponent => DecEnd > ExpStart) /\ ~isIdChar(CharAt(DecEnd), FALSE)

\* The first token of the styled range is Number and ends before position p.
NumberUpTo(p) == Tokens[1] = [first |-> 0, last |-> p - 1, style |-> SCE_AHK2_NUMBER]

\* C11: 0x with at least one hex digit is one Number token that ends
\* normally (the state after it is not Error); 0x with no hex digit is a
\* Number token after which the state is Error; a decimal literal (integer
\* part, fraction, exponent with digits and an optional sign, as 1.5e10) is
\* one Number token that ends normally.
C11_Numbers ==
    Line0Lexed =>
        /\ (HexPrefix /\ HexEnd > 2) => NumberUpTo(HexEnd) /\ AfterState(HexEnd) # SCE_AHK2_ERROR
        /\ (HexPrefix /\ HexEnd = 2) => NumberUpTo(2) /\ AfterState(2) = SCE_AHK2_ERROR
        /\ DecimalLiteral => NumberUpTo(DecEnd) /\ AfterState(DecEnd) # SCE_AHK2_ERROR

\* The literal 0.0e0 has been lexed: integer part, fraction and exponent.
C11_Witness == Line0Lexed /\ DecimalLiteral /\ HasExponent /\ FracEnd > IntEnd + 1 /\ NumberUpTo(DecEnd)

\* The Number tokens of the styled range.
NumberTokens == {i \in DOMAIN Tokens : Tokens[i].style = SCE_AHK2_NUMBER}

\* The token starts with the hex prefix.
IsHexToken(t) == CharAt(t.first) = "0" /\ CharAt(t.first + 1) \in {"x", "X"}

\* The token is a decimal one whose text ends with the exponent marker or
\* with the marker and a sign: no exponent digit was consumed.
EndsInExponent(t) ==
    /\ ~IsHexToken(t)
    /\ \/ CharAt(t.last) \in {"e", "E"}
       \/ t.last > t.first /\ CharAt(t.last) \in {"+", "-"} /\ CharAt(t.last - 1) \in {"e", "E"}

\* C12: whenever a Number token is ended by an identifier character that
\* follows it with no whitespace, or ends with an exponent marker after which
\* no exponent digit was consumed, it is marked as an error: the Error state
\* follows the token.
C12_NumberError ==
    Line0Lexed =>
        \A i \in NumberTokens :
            (isIdChar(CharAt(Tokens[i].last + 1), FALSE) \/ EndsInExponent(Tokens[i]))
                => AfterState(Tokens[i].last + 1) = SCE_AHK2_ERROR

\* Where the name of the directive on line 0 ends, and the name, lowered.
NameEnd == SkipWhile(doc, 1, {x \in Range(doc) : isIdChar(x, FALSE)})

DirectiveName == [i \in 1..(NameEnd - 1) |-> toLower(CharAt(i))]

\* The style a token that starts with character c in Default state has.
StartStyle(c) ==
    IF c = DQUOTE THEN SCE_AHK2_STRING
    ELSE IF isNumeric(c, FALSE) THEN SCE_AHK2_NUMBER
    ELSE SCE_AHK2_ID_TOP_LEVEL

\* C13: when a #name directive ends, the name is a Directive token; a name
\* in the string-argument list makes the rest of the line a String with no
\* terminator (a quote does not end it, the line end does); a name in the
\* expression-argument list returns to Default, so that the argument is lexed
\* as code; a name in neither list is followed by the Error state up to the
\* line end.
C13_Directive ==
    Line0Lexed =>
        /\ Tokens[1] = [first |-> 0, last |-> NameEnd - 1, style |-> SCE_AHK2_DIRECTIVE]
        /\ IF InList(directivesStr, DirectiveName)
           THEN /\ \A p \in NameEnd..Line0Last : StyleAt(p) = SCE_AHK2_STRING
                /\ parserStates[0].finalToken = Tok(SCE_AHK2_STRING)
                /\ parserStates[0].stringState = StrState(NUL, {"NoEndChar"})
           ELSE IF InList(directivesExpr, DirectiveName)
           THEN /\ CharAt(NameEnd) = " " => StyleAt(NameEnd) = SCE_AHK2_DEFAULT
                /\ CharAt(NameEnd) = " " => \A p \in (NameEnd + 1)..(LineEnd(0) - 1) : StyleAt(p) = StartStyle(CharAt(NameEnd + 1))
                /\ parserStates[0].finalToken.style \in {SCE_AHK2_DIRECTIVE, StartStyle(CharAt(NameEnd + 1))}
           ELSE /\ \A p \in NameEnd..Line0Last : StyleAt(p) = SCE_AHK2_ERROR
                /\ parserStates[0].finalToken = Tok(SCE_AHK2_DIRECTIVE)
        /\ LastLine > 0 => StyleAt(LineStart(1)) = SCE_AHK2_ID_TOP_LEVEL

\* A string-argument directive written in upper case, with a quote in its
\* argument and a line after it, has been lexed.
C13_Witness ==
    /\ Line0Lexed
    /\ CharAt(1) = "R"
    /\ CharAt(NameEnd + 1) = DQUOTE
    /\ LastLine > 0
    /\ StyleAt(NameEnd + 2) = SCE_AHK2_STRING

\* The fields of a packed fold level: the level before the line, the level
\* after it, and the header flag.
LevelBefore(v) == v % SC_FOLDLEVELWHITEFLAG

LevelAfter(v) == v \div LevelShift

IsHeader(v) == (v \div SC_FOLDLEVELHEADERFLAG) % 2 = 1

\* The braces styled Operator up to the end of line l: opening and closing.
OpenedUpTo(l) == {p \in 0..(LineStart(l + 1) - 1) : StyleAt(p) = SCE_AHK2_OPERATOR /\ isOpeningBrace(CharAt(p))}

ClosedUpTo(l) == {p \in 0..(LineStart(l + 1) - 1) : StyleAt(p) = SCE_AHK2_OPERATOR /\ isClosingBrace(CharAt(p))}

\* The fold level after line l in a document whose fold points are braces.
BraceLevel(l) == IF l < 0 THEN SC_FOLDLEVELBASE ELSE SC_FOLDLEVELBASE + Cardinality(OpenedUpTo(l)) - Cardinality(ClosedUpTo(l))

\* The document has been folded from its first line to its last, and no call is running.
Folded == pc = "idle" /\ hist.firstFold.set

\* The three lines f() { / b() / }.
BlockDoc == Join(<<<<"f", "(", ")", " ", "{">>, <<" ", "b", "(", ")">>, <<"}">>>>)

\* C14: each line gets the packed value levelBefore | (levelAfter << 16),
\* the levels being the base level plus the braces opened less the braces
\* closed so far, with the header flag set exactly when levelAfter is above
\* levelBefore; of the three lines f() { / b() / } the first is a header
\* whose levelAfter is base + 1, the second has no net change, and the third
\* returns to the base level.
C14_FoldLevels ==
    Folded =>
        /\ \A l \in 0..LastLine :
            /\ LevelBefore(levels[l]) = BraceLevel(l - 1)
            /\ LevelAfter(levels[l]) = BraceLevel(l)
            /\ IsHeader(levels[l]) <=> BraceLevel(l) > BraceLevel(l - 1)
            /\ levels[l] = BraceLevel(l - 1) + BraceLevel(l) * LevelShift + (IF BraceLevel(l) > BraceLevel(l - 1) THEN SC_FOLDLEVELHEADERFLAG ELSE 0)
        /\ doc = BlockDoc =>
            /\ IsHeader(levels[0]) /\ LevelAfter(levels[0]) = SC_FOLDLEVELBASE + 1
            /\ LevelAfter(levels[1]) = LevelBefore(levels[1]) /\ ~IsHeader(levels[1])
            /\ LevelAfter(levels[2]) = SC_FOLDLEVELBASE

\* The three lines have been folded, and the first is a header.
C14_Witness == Folded /\ doc = BlockDoc /\ IsHeader(levels[0]) /\ LevelBefore(levels[2]) = SC_FOLDLEVELBASE + 1

\* C15: Fold is idempotent: running Fold again over the range it has just
\* folded, with the same styles and the same level on the line before the
\* range, writes no level that differs from the one the first run wrote.
C15_FoldIdempotent ==
    [][pc = "fold" => FoldLevels(hist.range.start, hist.range.end - hist.range.start, hist.range.initStyle, levels', options) = levels']_vars

\* Fold has run with compacting on and has made a line after the first a header.
C15_Witness == pc = "idle" /\ options.FoldCompact /\ \E l \in 1..LastLine : IsHeader(levels[l])

\* A Lex call has returned; the positions of StyledRange hold its styles.
Returned == pc = "fold"

\* A character that starts no token is on the line of p, at p or before it.
StrayBefore(p) == \E q \in LineStart(GetLine(p))..p : CharAt(q) = "@"

\* C16 as stated: when a character in Default state matches none of the
\* new-token rules, exactly that one character is styled Error, and
\* tokenizing resumes at the next character of the same line: every Error
\* token is one character long.
C16_ErrorOneChar ==
    Returned => \A i \in DOMAIN Tokens : Tokens[i].style = SCE_AHK2_ERROR => Tokens[i].last = Tokens[i].first

\* C16 amended: the character that matches none of the new-token rules and
\* all that follows it on its line, the line end included, is styled Error,
\* and nothing else is; tokenizing resumes at the start of the next line.
C16_ErrorToLineEnd ==
    Returned => \A p \in StyledRange : StyleAt(p) = SCE_AHK2_ERROR <=> StrayBefore(p)

\* A line with a stray character and an identifier after it has been lexed,
\* and the line after it starts with an identifier that is styled as one.
C16_Witness ==
    /\ Returned
    /\ \E p \in StyledRange :
        /\ CharAt(p) = "@" /\ CharAt(p + 1) = "a" /\ CharAt(p + 2) = LF /\ CharAt(p + 3) = "a"
        /\ StyleAt(p + 1) = SCE_AHK2_ERROR
        /\ StyleAt(p + 3) = SCE_AHK2_ID_TOP_LEVEL

\* The parser state at the start of line l of the lexed range.
StateBefore(l) == SeedState(l)

\* The style the scan has when it enters line l.
StyleBefore(l) == IF l = StartLine THEN hist.range.initStyle ELSE StyleAt(LineStart(l) - 1)

\* The last position of line l, its line end included.
LineLast(l) == IF l < LastLine THEN LineEnd(l) ELSE DocLen - 1

\* p holds a ';' that is the first text of its line or follows a space or
\* tab, on a line that neither opens nor closes a continuation section.
Semicolon(p) ==
    /\ CharAt(p) = ";"
    /\ isWhitespace(CharAt(p - 1)) \/ \A q \in LineStart(GetLine(p))..(p - 1) : isWhitespace(CharAt(q))
    /\ FirstText(GetLine(p)) \notin {"(", ")"}

\* A Comment-Line token starts at p and runs to the end of the line.
CommentToEnd(p) == \A q \in p..LineLast(GetLine(p)) : StyleAt(q) = SCE_AHK2_COMMENT_LINE

\* An Error style stands before p on its line.
ErrorBefore(p) == \E q \in LineStart(GetLine(p))..(p - 1) : StyleAt(q) = SCE_AHK2_ERROR

\* C17 as stated: inside an open continuation section a ';' that is first on
\* its line or follows a space or tab starts a Comment-Line token only if
\* the section was opened with the comments option; outside a continuation
\* section such a ';' always starts a Comment-Line token that runs to the
\* end of the line.
C17_SemicolonAlways ==
    Returned => \A p \in StyledRange : Semicolon(p) =>
        IF InContSect(StateBefore(GetLine(p)))
        THEN StyleAt(p) = SCE_AHK2_COMMENT_LINE => "Comments" \in StateBefore(GetLine(p)).contState
        ELSE CommentToEnd(p)

\* C17 amended: inside an open continuation section such a ';' starts a
\* Comment-Line token only if the section was opened with the comments
\* option, and does start one then unless an Error stands before it on the
\* line; outside a continuation section it starts a Comment-Line token that
\* runs to the end of the line exactly when the line is not inside a block
\* comment and no Error stands before it on the line.
C17_SameLineComment ==
    Returned => \A p \in StyledRange : Semicolon(p) =>
        IF InContSect(StateBefore(GetLine(p)))
        THEN /\ StyleAt(p) = SCE_AHK2_COMMENT_LINE => "Comments" \in StateBefore(GetLine(p)).contState
             /\ "Comments" \in StateBefore(GetLine(p)).contState /\ ~ErrorBefore(p) => CommentToEnd(p)
        ELSE CommentToEnd(p) <=> ~(StyleBefore(GetLine(p)) = SCE_AHK2_COMMENT_BLOCK \/ ErrorBefore(p))

\* A document has been lexed from its start that has a ';' comment before a
\* continuation section opened with the comments option, and another inside it.
C17_Witness ==
    /\ Returned
    /\ hist.range.start = 0
    /\ \E p, q \in StyledRange :
        /\ Semicolon(p) /\ ~InContSect(StateBefore(GetLine(p))) /\ CommentToEnd(p)
        /\ Semicolon(q) /\ "Comments" \in StateBefore(GetLine(q)).contState /\ CommentToEnd(q)

\* The Escape tokens the returning call has emitted.
EscapeTokens == {i \in DOMAIN Tokens : Tokens[i].style = SCE_AHK2_ESCAPE}

\* The loop body runs at a character with the Escape state.
InEscape == pc = "body" /\ sc.currentPos < sc.endPos /\ sc.state = SCE_AHK2_ESCAPE

\* C18 as stated: every Escape token in the style stream is exactly one
\* character long, and the state after it is String.
C18_EscapeOneChar ==
    /\ [](Returned => \A i \in EscapeTokens : Tokens[i].last = Tokens[i].first)
    /\ [][InEscape => sc'.state = SCE_AHK2_STRING]_vars

\* C18 amended: every Escape token is exactly two characters long, the
\* backtick and the escapable character after it (one character, the
\* backtick, when that is the last character of the document), and the
\* state after it is String.
C18_EscapeTwoChars ==
    /\ [](Returned => \A i \in EscapeTokens :
            /\ CharAt(Tokens[i].first) = BACKTICK
            /\ IF Tokens[i].first = DocLen - 1 THEN Tokens[i].last = Tokens[i].first
               ELSE Tokens[i].last = Tokens[i].first + 1 /\ isEscapable(CharAt(Tokens[i].last)))
    /\ [][InEscape => sc'.state = SCE_AHK2_STRING]_vars

\* The call has emitted an Escape token of a backtick and the character after
\* it, and a String token after it.
C18_Witness ==
    /\ Returned
    /\ \E i \in EscapeTokens :
        /\ Tokens[i].last = Tokens[i].first + 1
        /\ i + 1 \in DOMAIN Tokens
        /\ Tokens[i + 1].style = SCE_AHK2_STRING
        /\ Tokens[i + 1].first = Tokens[i].last + 1

\* The loop's advance is about to run at a line-end character (or at the end
\* of the document) with swallowForward clear: it calls ProcessLineEnd.
Commits == pc = "advance" /\ ~loc.swallowForward /\ sc.atLineEnd

\* The advance is about to run at a line-end character with swallowForward set.
SwallowsAtLineEnd == pc = "advance" /\ loc.swallowForward /\ sc.atLineEnd

\* The lines whose line-end character the returning call has reached.
LinesEnded == {l \in StartLine..(LastLine - 1) : LineEnd(l) < hist.range.end}

\* C19: during a Lex pass ProcessLineEnd happens exactly once for each
\* physical line end reached in the range: a call is made only for a line
\* that has no snapshot yet, and when the pass returns every line whose end
\* it reached has one; an advance that swallowForward holds back at a
\* line-end character makes no call and stays there, so that the next advance
\* makes it; the snapshot a call stores for line L is the parser state at the
\* end of line L.
C19_CommitOnce ==
    /\ [][Commits => /\ sc.currentLine \notin DOMAIN parserStates
                     /\ DOMAIN parserStates' = DOMAIN parserStates \cup {sc.currentLine}
                     /\ parserStates'[sc.currentLine] = parserState'
                     /\ sc'.currentLine = sc.currentLine + 1]_vars
    /\ [][SwallowsAtLineEnd => /\ parserStates' = parserStates
                               /\ sc'.currentPos = sc.currentPos
                               /\ sc'.atLineEnd
                               /\ ~loc'.swallowForward]_vars
    /\ [][pc = "advance" /\ ~sc.atLineEnd => parserStates' = parserStates]_vars
    /\ [](Returned => LinesEnded \subseteq DOMAIN parserStates)

\* The advance after an escape sequence that ends its line is about to call
\* ProcessLineEnd: the one before it was held back at the line-end character.
C19_Witness ==
    /\ Commits
    /\ CharAt(sc.currentPos) = LF
    /\ CharAt(sc.currentPos - 2) = BACKTICK
    /\ \E i \in EscapeTokens : Tokens[i].last = sc.currentPos - 1

\* The positions of the text of line l: what is not whitespace.
TextOf(l) == {p \in LineStart(l)..(LineEnd(l) - 1) : ~isWhitespace(CharAt(p))}

\* Line l opens a continuation section.
OpensSection(l) == ~InContSect(StateBefore(l)) /\ InContSect(parserStates[l])

\* No token starts on line l: it is blank, or all its text is comment, or it
\* is the opener of a continuation section.
NoTokenOn(l) ==
    \/ \A p \in TextOf(l) : StyleAt(p) \in {SCE_AHK2_COMMENT_LINE, SCE_AHK2_COMMENT_BLOCK}
    \/ OpensSection(l)

\* The lines the returning call has stored a snapshot for.
LinesStored == {l \in DOMAIN parserStates : l >= StartLine}

\* C20: at the end of a line on which no token started (only whitespace,
\* only a comment, or the opener of a continuation section) finalToken and
\* stringState of the parser state are what they were at the end of the line
\* before, and so those of the last line that had a token; only contState may
\* differ.
C20_QuietLineKeeps ==
    Returned => \A l \in LinesStored : NoTokenOn(l) =>
        /\ parserStates[l].finalToken = StateBefore(l).finalToken
        /\ parserStates[l].stringState = StateBefore(l).stringState

\* A document lexed from its start has a blank line after a line with a
\* token, and after these the opener of a section: the snapshots of both
\* have the token of the first line, and that of the opener a new contState.
C20_Witness ==
    /\ Returned
    /\ hist.range.start = 0
    /\ \E l \in LinesStored :
        /\ l > 0
        /\ TextOf(l) = {}
        /\ parserStates[l].finalToken # Tok(SCE_AHK2_DEFAULT)
        /\ l + 1 \in LinesStored
        /\ OpensSection(l + 1)
        /\ parserStates[l + 1].finalToken # Tok(SCE_AHK2_DEFAULT)
        /\ parserStates[l + 1].contState # parserStates[l].contState

\* The loop body is about to run at the first character of a line.
AtFirstChar == pc = "body" /\ sc.currentPos < sc.endPos /\ sc.atLineStart

\* The state the line-start code (lines 619-642) leaves for the line.
ResumeState == LineStartPhase(Bundle).sc.state

\* The text of line l ends with the closer of a block comment.
EndsWithClose(l) ==
    /\ TextOf(l) # {}
    /\ LET e == CHOOSE p \in TextOf(l) : \A q \in TextOf(l) : q <= p
       IN e > LineStart(l) /\ CharAt(e - 1) = "*" /\ CharAt(e) = "/"

\* The line before the current one ended inside a block comment that it did
\* not close.
PrevLineInComment ==
    /\ sc.currentLine > 0
    /\ sc.state = SCE_AHK2_COMMENT_BLOCK
    /\ ~EndsWithClose(sc.currentLine - 1)

\* The parser state asks for String at the start of a line.
ResumesString ==
    \/ "String" \in parserState.contState
    \/ "Inside" \in parserState.contState /\ parserState.stringState # NoString

\* C21: at the first character of every line the state is String,
\* Comment-Block or Default: String only if the parser state has the String
\* flag, or Inside with a persisted stringState; Comment-Block only if the
\* line before ended inside a block comment it did not close; Default
\* otherwise. No other state is carried over a line boundary.
C21_ResumeState ==
    AtFirstChar =>
        /\ ResumeState \in {SCE_AHK2_STRING, SCE_AHK2_COMMENT_BLOCK, SCE_AHK2_DEFAULT}
        /\ ResumeState = SCE_AHK2_STRING => ResumesString
        /\ ResumeState = SCE_AHK2_COMMENT_BLOCK => PrevLineInComment
        /\ ~ResumesString /\ ~PrevLineInComment => ResumeState = SCE_AHK2_DEFAULT

\* The lines that have a line after them and are styled together with the
\* first character of that line.
LinePairs == {l \in 0..(LastLine - 1) : LineStart(l + 1) < endStyled}

\* A block comment runs at the end of line l and line l does not close it.
OpenAfter(l) == StyleAt(LineEnd(l)) = SCE_AHK2_COMMENT_BLOCK /\ ~EndsWithClose(l)

\* The position of the first text of line l; the line end for a line without text.
FirstTextPos(l) == IF TextOf(l) = {} THEN LineEnd(l) ELSE CHOOSE p \in TextOf(l) : \A q \in TextOf(l) : p <= q

\* The first text of line l is s.
StartsWith(l, s) == \A i \in 1..Len(s) : CharAt(FirstTextPos(l) + i - 1) = s[i]

\* C22: a block comment closes only when its closer is followed by nothing
\* but whitespace up to the end of the line, and the next line then starts
\* in Default, or when the closer is the first text of a line, and Default
\* resumes right after it; a closer followed by other text on its line
\* leaves the comment open, as does a line without a closer.
C22_BlockCommentClose ==
    Returned => \A l \in LinePairs :
        /\ StyleAt(LineEnd(l)) = SCE_AHK2_COMMENT_BLOCK /\ EndsWithClose(l) =>
             \/ StyleAt(LineStart(l + 1)) # SCE_AHK2_COMMENT_BLOCK
             \/ FirstTextPos(l + 1) = LineStart(l + 1) /\ StartsWith(l + 1, <<"/", "*">>)
        /\ OpenAfter(l) /\ StartsWith(l + 1, <<"*", "/">>) /\ FirstTextPos(l + 1) + 2 < endStyled =>
             /\ StyleAt(FirstTextPos(l + 1) + 1) = SCE_AHK2_COMMENT_BLOCK
             /\ StyleAt(FirstTextPos(l + 1) + 2) # SCE_AHK2_COMMENT_BLOCK
        /\ OpenAfter(l) /\ ~StartsWith(l + 1, <<"*", "/">>) =>
             \A p \in LineStart(l + 1)..LineLast(l + 1) : p < endStyled => StyleAt(p) = SCE_AHK2_COMMENT_BLOCK

\* The '(' of line l is Operator, and the String flag of the section it opens
\* is set exactly when the persisted stringState is not zero.
OpensAsStated(l) ==
    /\ CharAt(FirstTextPos(l)) = "("
    /\ StyleAt(FirstTextPos(l)) = SCE_AHK2_OPERATOR
    /\ "String" \in parserStates[l].contState <=> StateBefore(l).stringState # NoString

\* The positions of line l after its first text, the line end included.
RestOf(l) == (FirstTextPos(l) + 1)..LineLast(l)

\* A same-line comment the opener line l allows stands at p or before it.
OpenerComment(l, p) ==
    /\ "Comments" \in parserStates[l].contState
    /\ \E q \in RestOf(l) : q <= p /\ CharAt(q) = ";" /\ isWhitespace(CharAt(q - 1))

\* An escape sequence the opener line l allows starts at p.
OpenerEscape(l, p) ==
    /\ "NoEscape" \notin parserStates[l].contState
    /\ p \in RestOf(l)
    /\ CharAt(p) = BACKTICK /\ CharAt(p - 1) # BACKTICK /\ CharAt(p + 1) # LF /\ isEscapable(CharAt(p + 1))

OptionTokens ==
    {ab \in (1..(DocLen - 1)) \X (1..(DocLen - 1)) :
        /\ ab[1] <= ab[2]
        /\ \A p \in ab[1]..ab[2] : ~isWhitespace(CharAt(p))
        /\ ab[1] = 1 \/ isWhitespace(CharAt(ab[1] - 1))
        /\ ab[2] = DocLen - 1 \/ isWhitespace(CharAt(ab[2] + 1))}

\* The text of a token, in lower case.
TokenText(ab) == [i \in 1..(ab[2] - ab[1] + 1) |-> toLower(CharAt(ab[1] + i - 1))]

\* The non-empty prefixes of "comments".
CommentsPrefixes == {SubSeq(<<"c", "o", "m", "m", "e", "n", "t", "s">>, 1, n) : n \in 1..8}

\* The one-line document is the opener of a continuation section.
IsOpenerLine == CharAt(0) = "(" /\ CharAt(1) # ":" /\ \A p \in 1..(DocLen - 1) : CharAt(p) \notin {"(", ")"}

\* C24: on an opener line, among the whitespace-separated tokens after the
\* '(', a token that is exactly a backtick sets NoEscape, a token that is a
\* non-empty prefix of "comments" sets Comments, and every other token sets
\* no flag; a line that starts with "(:" or has a further '(' or ')' is not
\* an opener.
C24_OpenerOptions ==
    Returned =>
        parserStates[0].contState =
            IF IsOpenerLine
            THEN {"Inside"}
                 \cup (IF \E ab \in OptionTokens : TokenText(ab) = <<BACKTICK>> THEN {"NoEscape"} ELSE {})
                 \cup (IF \E ab \in OptionTokens : TokenText(ab) \in CommentsPrefixes THEN {"Comments"} ELSE {})
            ELSE {}

\* An opener with both options has been lexed.
C24_Witness ==
    /\ Returned
    /\ IsOpenerLine
    /\ parserStates[0].contState = {"Inside", "NoEscape", "Comments"}

\* Where the ':' that ends the options of the hotstring line 0 is.
OptionsEnd == StrStr(doc, 1, <<":">>)

\* Where the "::" that ends its trigger is.
OptionTriggerEnd == StrStr(doc, OptionsEnd + 1, <<":", ":">>)

\* The options have the x option.
HasX == \E p \in 1..(OptionsEnd - 1) : CharAt(p) \in {"x", "X"}

\* The style code has at p in Default state, for the bodies of the documents.
CodeStyle(p) ==
    IF CharAt(p) = "y" THEN SCE_AHK2_ID_TOP_LEVEL
    ELSE IF CharAt(p) = "0" THEN SCE_AHK2_NUMBER
    ELSE SCE_AHK2_DEFAULT

\* C25: of a hotstring line :options:trigger::body the first ':' is
\* Operator, the options and the trigger are String with an Operator ':'
\* between them, the closing "::" is Operator, and after it the state is
\* Default and the body is lexed as code exactly when the options have x or
\* X; otherwise the body is a String that no character ends.
C25_HotstringX ==
    Line0Lexed =>
        /\ StyleAt(0) = SCE_AHK2_OPERATOR
        /\ \A p \in 1..(OptionsEnd - 1) : StyleAt(p) = SCE_AHK2_STRING
        /\ StyleAt(OptionsEnd) = SCE_AHK2_OPERATOR
        /\ \A p \in (OptionsEnd + 1)..(OptionTriggerEnd - 1) : StyleAt(p) = SCE_AHK2_STRING
        /\ StyleAt(OptionTriggerEnd) = SCE_AHK2_OPERATOR /\ StyleAt(OptionTriggerEnd + 1) = SCE_AHK2_OPERATOR
        /\ IF HasX
           THEN /\ \A p \in (OptionTriggerEnd + 2)..Line0Last : StyleAt(p) = CodeStyle(p)
                /\ parserStates[0].stringState = NoString
           ELSE /\ \A p \in (OptionTriggerEnd + 2)..Line0Last : StyleAt(p) = SCE_AHK2_STRING
                /\ parserStates[0].stringState = StrState(NUL, {"NoEndChar"})

\* A hotstring with the x option among others, a ':' inside its trigger and
\* a body of an identifier and a number has been lexed.
C25_Witness ==
    /\ Line0Lexed
    /\ HasX
    /\ OptionsEnd > 2
    /\ OptionTriggerEnd > OptionsEnd + 2
    /\ StyleAt(OptionTriggerEnd + 2) = SCE_AHK2_ID_TOP_LEVEL
    /\ StyleAt(OptionTriggerEnd + 4) = SCE_AHK2_NUMBER

\* The loop body is about to run at a backtick in String state: the state
\* the line-start code gives at the first character of a line, the state
\* the scan has elsewhere.
BacktickInString ==
    /\ pc = "body" /\ sc.currentPos < sc.endPos
    /\ sc.ch = BACKTICK
    /\ IF sc.atLineStart THEN ResumesString ELSE sc.state = SCE_AHK2_STRING

\* The characters that a backtick escapes.
EscapableChars == {BACKTICK, ";", ":", "{", "n", "r", "b", "t", "s", "v", "a", "f", DQUOTE, "'"}

\* C26: in String state a backtick starts an Escape token only if the next
\* character is one of the recognised escape characters, the enclosing
\* continuation section has not set NoEscape and the string is not a remap
\* target; a backtick followed by any other character, a line end included,
\* enters Error; with NoEscape set (or in a remap target) the backtick is
\* string text.
C26_Backtick ==
    [][BacktickInString =>
        sc'.state = IF "NoEscape" \in parserState.contState \/ loc.isRemap THEN SCE_AHK2_STRING
                    ELSE IF sc.chNext \in EscapableChars THEN SCE_AHK2_ESCAPE
                    ELSE SCE_AHK2_ERROR]_vars

\* A ';' that whitespace precedes is at p.
SpacedSemicolon(p) == CharAt(p) = ";" /\ isWhitespace(CharAt(p - 1))

\* p lies inside a quoted string literal that a later quote ends: the quotes
\* before p are odd in number and one follows.
InLiteral(p) ==
    /\ Cardinality({q \in 0..(p - 1) : CharAt(q) = DQUOTE}) % 2 = 1
    /\ \E q \in (p + 1)..(DocLen - 1) : CharAt(q) = DQUOTE

\* C27 as stated: comments are recognised only between tokens: a ';' that
\* whitespace precedes and that lies inside a quoted string literal starts no
\* Comment-Line token, and the string continues to its terminator.
C27_NoCommentInString ==
    Returned => \A p \in StyledRange : SpacedSemicolon(p) /\ InLiteral(p) =>
        \A q \in p..(CHOOSE e \in (p + 1)..(DocLen - 1) : CharAt(e) = DQUOTE /\ \A k \in (p + 1)..(e - 1) : CharAt(k) # DQUOTE) :
            StyleAt(q) = SCE_AHK2_STRING

\* C27 amended: a ';' that whitespace precedes starts a Comment-Line token
\* wherever it stands on a line that has no Error before it, inside a quoted
\* string literal too: the string is cut there and the comment runs to the
\* end of the line, the quote that would end the string included.
C27_CommentCutsString ==
    Returned => \A p \in StyledRange :
        StyleAt(p) = SCE_AHK2_COMMENT_LINE <=> \E q \in 0..p : SpacedSemicolon(q) /\ ~ErrorBefore(q)

\* A string literal with a ';' after a space inside it has been lexed: what is
\* before the ';' is String, and the ';' and the closing quote are Comment-Line.
C27_Witness ==
    /\ Returned
    /\ \E p \in StyledRange :
        /\ SpacedSemicolon(p) /\ InLiteral(p)
        /\ \A q \in 0..(p - 1) : StyleAt(q) = SCE_AHK2_STRING
        /\ \A q \in p..(DocLen - 1) : StyleAt(q) = SCE_AHK2_COMMENT_LINE

\* C28: a hotkey line whose key is followed by whitespace and the up
\* modifier is accepted by the hotkey classifier as the same line without
\* the modifier is: the key with its modifier is Label and the "::" after
\* it Operator.
C28_UpModifier ==
    Line0Lexed =>
        /\ \A p \in 0..(KeyEnd - 1) : StyleAt(p) = SCE_AHK2_LABEL
        /\ StyleAt(KeyEnd) = SCE_AHK2_OPERATOR /\ StyleAt(KeyEnd + 1) = SCE_AHK2_OPERATOR

\* C29: of a line that begins with ":::" the first ':' is the hotkey name
\* and is styled Label, and the "::" after it is the Operator separator.
C29_ColonHotkey ==
    Line0Lexed /\ CharAt(0) = ":" /\ CharAt(1) = ":" /\ CharAt(2) = ":" =>
        /\ StyleAt(0) = SCE_AHK2_LABEL
        /\ StyleAt(1) = SCE_AHK2_OPERATOR
        /\ StyleAt(2) = SCE_AHK2_OPERATOR

\* A bare top-level word starts at p: a letter that follows neither a word
\* character nor a '.'.
WordStart(p) == isIdChar(CharAt(p), FALSE) /\ ~isIdChar(CharAt(p - 1), TRUE) /\ CharAt(p - 1) # "."

\* The position after the last character of the word that starts at p.
WordEnd(p) == CHOOSE q \in (p + 1)..DocLen : ~isIdChar(CharAt(q), TRUE) /\ \A r \in p..(q - 1) : isIdChar(CharAt(r), TRUE)

\* The word that starts at p.
WordAt(p) == [i \in 1..(WordEnd(p) - p) |-> CharAt(p + i - 1)]

\* The word that starts at p comes right after the keyword kw: kw is styled
\* as a control-flow keyword and only whitespace lies between the two.
FollowsKeyword(p, kw) ==
    \E q \in 0..(p - 1) :
        /\ WordStart(q) /\ WordAt(q) = kw /\ StyleAt(q) = SCE_AHK2_FLOW
        /\ WordEnd(q) < p
        /\ \A r \in WordEnd(q)..(p - 1) : isWhitespace(CharAt(r))

\* The style the word lists alone give a bare word.
OrdinaryStyle(w) ==
    IF w \in controlFlow THEN SCE_AHK2_FLOW
    ELSE IF w \in reservedWords THEN SCE_AHK2_ID_RESERVED
    ELSE SCE_AHK2_ID_TOP_LEVEL

\* C30: the bare word right after a goto keyword is Label whatever word it
\* is, files/parse/read/reg right after the loop keyword is Flow-Keyword,
\* and a word that another token or a line break separates from the
\* keyword, or that comes one word later, has the style the word lists give.
C30_FollowUp ==
    Line0Lexed =>
        \A p \in 0..(DocLen - 1) :
            WordStart(p) =>
                \A r \in p..(WordEnd(p) - 1) :
                    StyleAt(r) = IF FollowsKeyword(p, <<"g","o","t","o">>) THEN SCE_AHK2_LABEL
                                 ELSE IF FollowsKeyword(p, <<"l","o","o","p">>) /\ WordAt(p) \in {<<"f","i","l","e","s">>, <<"p","a","r","s","e">>, <<"r","e","a","d">>, <<"r","e","g">>}
                                      THEN SCE_AHK2_FLOW
                                 ELSE OrdinaryStyle(WordAt(p))

\* The line "goto if reg": the keyword if right after goto is Label, and
\* the word after it is an ordinary identifier.
C30_Witness ==
    /\ Line0Lexed
    /\ doc = <<"g","o","t","o"," ","i","f"," ","r","e","g">>
    /\ StyleAt(0) = SCE_AHK2_FLOW
    /\ StyleAt(5) = SCE_AHK2_LABEL /\ StyleAt(6) = SCE_AHK2_LABEL
    /\ StyleAt(8) = SCE_AHK2_ID_TOP_LEVEL

\* A Lex call is scanning.
Scanning == pc \in {"body", "advance"}

\* The style the running call has given position p.
Coloured(p) == styler.styleBuf[p - styler.startPosStyling + 1]

\* The line the label and accessor flags belong to: they are reset by the
\* line-start code, which has not yet run when the loop body is about to
\* handle the first character of a line.
FlagLine == IF pc = "body" /\ sc.atLineStart /\ sc.currentLine > StartLine THEN sc.currentLine - 1 ELSE sc.currentLine

\* Line l of the running call starts inside a continuation section.
StartsInSection(l) == InContSect(SeedState(l))

\* Line l of the running call starts inside a block comment.
StartsInComment(l) ==
    IF l = StartLine THEN hist.range.initStyle = SCE_AHK2_COMMENT_BLOCK
    ELSE Coloured(LineStart(l) - 1) = SCE_AHK2_COMMENT_BLOCK /\ ~EndsWithClose(l - 1)

\* The first position of line l at or after p that is not whitespace.
FirstTextFrom(l, p) ==
    LET text == {q \in TextOf(l) : q >= p}
    IN IF text = {} THEN LineEnd(l) ELSE CHOOSE q \in text : \A r \in text : q <= r

\* The text of line l from p on as the classifiers see it.
LineBuf(l, p) == extractLineRTrim([sc |-> [currentPos |-> p, lineEnd |-> LineEnd(l)]])

\* The text of line l is of one of the three types tested before the flags.
SpecialLine(l, p) ==
    LET buf == LineBuf(l, p)
    IN \/ isContSectOpener(buf)
       \/ isHotstringCompatible(buf, FALSE).valid
       \/ isHotkeyCompatible(buf).valid

\* The label or the accessor flag is set.
Flagged == loc.labelCompatible \/ loc.etterCompatible

\* Line l is both an opener and a hotkey line and it is taken as the opener:
\* its '(' is Operator and the section is open after it.
OpenerFirst(l) ==
    isContSectOpener(LineBuf(l, FirstTextPos(l))) /\ isHotkeyCompatible(LineBuf(l, FirstTextPos(l))).valid
        /\ ~InContSect(StateBefore(l)) /\ StyleBefore(l) # SCE_AHK2_COMMENT_BLOCK
    => StyleAt(FirstTextPos(l)) = SCE_AHK2_OPERATOR /\ InContSect(parserStates[l])

\* C31 as stated: the flags are never both set, they are set only on a line
\* that is none of opener, hotstring and hotkey, an opener that is also a
\* hotkey line is an opener, and no flag is set on a line that starts
\* inside a continuation section or inside a block comment.
C31_NoLookaheadInComment ==
    /\ Scanning =>
        /\ ~(loc.labelCompatible /\ loc.etterCompatible)
        /\ Flagged => ~StartsInSection(FlagLine) /\ ~StartsInComment(FlagLine)
        /\ Flagged => ~SpecialLine(FlagLine, FirstTextPos(FlagLine))
    /\ Returned => \A l \in LinesStored : OpenerFirst(l)

\* C31: the flags are never both set, they are set only on a line that is
\* none of opener, hotstring and hotkey, an opener that is also a hotkey
\* line is an opener, and no flag is set on a line that starts inside a
\* continuation section; on a line that starts inside a block comment a
\* flag is set only when the closer is the first text of the line, and it
\* is set for the text after the closer.
C31_OneClassification ==
    /\ Scanning =>
        LET l == FlagLine
            restart == StartsInComment(l) /\ StartsWith(l, <<"*", "/">>)
            p == IF restart THEN FirstTextFrom(l, FirstTextPos(l) + 2) ELSE FirstTextPos(l)
        IN /\ ~(loc.labelCompatible /\ loc.etterCompatible)
           /\ Flagged => ~StartsInSection(l) /\ (StartsInComment(l) => restart)
           /\ Flagged => ~SpecialLine(l, p)
    /\ Returned => \A l \in LinesStored : OpenerFirst(l)

\* The label flag is set on a line that starts inside a block comment and
\* has the closer as its first text.
C31_Witness ==
    /\ pc = "advance"
    /\ StartLine = 0
    /\ sc.currentLine = 1
    /\ loc.labelCompatible
    /\ ~loc.etterCompatible
    /\ ~StartsInSection(1)
    /\ StartsInComment(1)
    /\ StartsWith(1, <<"*", "/">>)

\* The '#' at p starts a token: a directive or an error.
HashStarts(p) == CharAt(p) = "#" /\ StyleAt(p) \in {SCE_AHK2_DIRECTIVE, SCE_AHK2_ERROR} /\ (p = 0 \/ StyleAt(p - 1) \notin {SCE_AHK2_DIRECTIVE, SCE_AHK2_ERROR})

\* Only whitespace stands before p on its line.
NoTokenBefore(p) == \A q \in LineStart(GetLine(p))..(p - 1) : isWhitespace(CharAt(q))

\* C32: a '#' that starts a token starts a Directive token exactly when no
\* token has started before it on its line and the line is not inside a
\* continuation section; after another token of the line, or inside a
\* continuation section, it starts an Error token.
C32_HashDirective ==
    Returned => \A l \in LinesStored : \A p \in LineStart(l)..LineLast(l) :
        HashStarts(p) =>
            (StyleAt(p) = SCE_AHK2_DIRECTIVE <=> NoTokenBefore(p) /\ ~InContSect(StateBefore(l)))

\* Line l is an opener by its text: its first text is '(' with no ':' right
\* after it and no further parenthesis on the line.
OpenerText(l) ==
    /\ CharAt(FirstTextPos(l)) = "("
    /\ CharAt(FirstTextPos(l) + 1) # ":"
    /\ \A p \in (FirstTextPos(l) + 1)..(LineEnd(l) - 1) : CharAt(p) \notin {"(", ")"}

\* A continuation section is open after line l: the line before left one
\* open and l does not start with the closer, or none was open and l is an
\* opener. The lines before the lexed range are taken from the cache.
RECURSIVE SectionOpenAfter(_)
SectionOpenAfter(l) ==
    LET before == IF l = StartLine THEN InContSect(SeedState(l)) ELSE SectionOpenAfter(l - 1)
    IN IF before THEN FirstText(l) # ")" ELSE OpenerText(l)

\* C33: when Lex returns, the line state the host holds for every line whose
\* end the call has processed is the contState of the snapshot cached for
\* that line, and it is not empty exactly when a continuation section is
\* open after the line.
C33_LineState ==
    Returned => \A l \in LinesStored :
        /\ lineState[l] = parserStates[l].contState
        /\ lineState[l] # {} <=> SectionOpenAfter(l)

\* A call has stored a line with an open section and a later line after the
\* section was closed.
C33_Witness ==
    /\ Returned
    /\ \E l \in LinesStored : l + 1 \in LinesStored /\ lineState[l] # {} /\ lineState[l + 1] = {}
    /\ \E l \in LinesStored : {"Inside", "Comments"} \subseteq lineState[l]

\* The positions of line l, its line end included.
LinePositions(l) == LineStart(l)..LineLast(l)

\* The fold points of line l, by kind: braces styled Operator, the first and
\* the last character of a run of Comment-Block style, and the markers ;{
\* and ;} in Comment-Line style.
OperatorOpens(l) == {p \in LinePositions(l) : StyleAt(p) = SCE_AHK2_OPERATOR /\ CharAt(p) \in {"(", "[", "{"}}

OperatorCloses(l) == {p \in LinePositions(l) : StyleAt(p) = SCE_AHK2_OPERATOR /\ CharAt(p) \in {")", "]", "}"}}

BlockEntries(l) == {p \in LinePositions(l) : StyleAt(p) = SCE_AHK2_COMMENT_BLOCK /\ (p = 0 \/ StyleAt(p - 1) # SCE_AHK2_COMMENT_BLOCK)}

BlockExits(l) == {p \in LinePositions(l) : StyleAt(p) = SCE_AHK2_COMMENT_BLOCK /\ p > 0 /\ StyleAt(p - 1) = SCE_AHK2_COMMENT_BLOCK /\ StyleAt(p + 1) # SCE_AHK2_COMMENT_BLOCK}

MarkerOpens(l) == {p \in LinePositions(l) : StyleAt(p) = SCE_AHK2_COMMENT_LINE /\ CharAt(p) = ";" /\ CharAt(p + 1) = "{"}

MarkerCloses(l) == {p \in LinePositions(l) : StyleAt(p) = SCE_AHK2_COMMENT_LINE /\ CharAt(p) = ";" /\ CharAt(p + 1) = "}"}

\* The change of the nesting level over line l that the fold points of the
\* line account for.
FoldChange(l) ==
    Cardinality(OperatorOpens(l)) - Cardinality(OperatorCloses(l))
    + (IF options.FoldComment
       THEN Cardinality(BlockEntries(l)) - Cardinality(BlockExits(l)) + Cardinality(MarkerOpens(l)) - Cardinality(MarkerCloses(l))
       ELSE 0)

\* C34: over each line Fold changes the nesting level by one up for every
\* Operator-styled ( [ { and one down for every Operator-styled ) ] }, and,
\* when fold.comment is on, one up where a block comment is entered and for
\* every ;{ in Comment-Line style, one down where a block comment is left
\* and for every ;} in Comment-Line style, and by nothing else: a brace in
\* any other style changes nothing, and with fold.comment off no comment does.
C34_FoldPoints ==
    Folded /\ options.Fold =>
        \A l \in 0..LastLine : LevelAfter(levels[l]) - LevelBefore(levels[l]) = FoldChange(l)

\* A folded document with a brace in a block comment or a string on a line
\* whose level does not change, and, with fold.comment off, a fold marker
\* that changes nothing while an Operator brace on another line does.
C34_Witness ==
    /\ Folded
    /\ options.Fold
    /\ ~options.FoldComment
    /\ \E l \in 0..LastLine : MarkerOpens(l) # {} /\ LevelAfter(levels[l]) = LevelBefore(levels[l])
    /\ \E l \in 0..LastLine : OperatorOpens(l) # {} /\ LevelAfter(levels[l]) = LevelBefore(levels[l]) + 1
    /\ \E l \in 0..LastLine : \E p \in LinePositions(l) :
           /\ CharAt(p) \in {"(", "{"}
           /\ StyleAt(p) \in {SCE_AHK2_STRING, SCE_AHK2_COMMENT_BLOCK}
           /\ LevelAfter(levels[l]) = LevelBefore(levels[l])

\* The lines the host has had folded: those that start before endStyled,
\* and the empty last line of a document that ends with a line end.
FoldedLines == {l \in 0..LastLine : LineStart(l) < endStyled \/ (endStyled = DocLen /\ l = LastLine)}

\* C35: fold levels chain across lines: once the host has had its ranges
\* folded, in one pass or in consecutive ranges in forward order, the level
\* before each folded line is the level after the line before it, and the
\* base level for line 0.
C35_LevelsChain ==
    pc = "idle" =>
        \A l \in FoldedLines :
            LevelBefore(levels[l]) = IF l = 0 THEN SC_FOLDLEVELBASE ELSE LevelAfter(levels[l - 1])

\* The document has been folded to its end in more than one range, never in
\* one pass from its first line, and a line after the first starts above
\* the base level.
C35_Witness ==
    /\ pc = "idle"
    /\ endStyled = DocLen
    /\ ~hist.firstFold.set
    /\ \E l \in 1..LastLine : LevelBefore(levels[l]) > SC_FOLDLEVELBASE /\ LevelBefore(levels[l]) = LevelAfter(levels[l - 1])

====
